---- MODULE Spec2Model ----
(***************************************************************************)
(* Model of the three deterministic decision scorers of templ.js:         *)
(*   simple       skills/comparative-analysis/scripts/score_alternatives.py *)
(*   scaled       skills/comparative-decision-review/scripts/score_options.py *)
(*   guardrailed  skills/hybrid-decision-analysis/scripts/score_with_guardrails.py *)
(*                                                                         *)
(* One run of a script is a behaviour: the input document `data` and the   *)
(* command-line flags are fixed by Init, and the actions are the steps of  *)
(* main()/_evaluate(): normalisation and validation, the scoring loop (one *)
(* alternative per step), the sort, the recommendation and the output.     *)
(*                                                                         *)
(* Numbers.  Python floats are modelled as exact rationals <<n, d>> with   *)
(* d > 0.  round(x, k) is modelled as round-half-to-even on the exact      *)
(* value.  Binary floating-point error (a product such as 0.6 * 76 that    *)
(* is not exactly representable) is outside the model.                     *)
(*                                                                         *)
(* JSON values.  A value that the code passes to float() is a record       *)
(* [t |-> "num", v |-> <<n, d>>], [t |-> "null"], [t |-> "nan"] (NaN or an *)
(* infinity) or [t |-> "str"] (text that float() rejects).  A JSON object  *)
(* is a function whose DOMAIN is the set of keys present.  A string that   *)
(* the code lower-cases and compares (a name) is a sequence of character   *)
(* codes.                                                                   *)
(***************************************************************************)
EXTENDS Integers, Sequences, FiniteSets, TLC

VARIABLES
    variant,          \* which script runs: "simple", "scaled" or "guardrailed"
    flags,            \* argparse flags: allow_unconfirmed, allow_single_option
    data,             \* the parsed input document (json.load)
    pc,               \* position in main()/_evaluate()
    current_platform, \* _evaluate local
    major_platforms,  \* _evaluate local: the cleaned list
    score_scale,      \* _evaluate local (scaled, guardrailed)
    criteria,         \* _evaluate local: normalized criteria
    alternatives,     \* _evaluate local: normalized alternatives (guardrailed)
    blend,            \* _evaluate local: normalized blend
    rules,            \* _evaluate local: normalized recommendation rules
    results,          \* _evaluate local: scored records, in input order
    seen_ids,         \* _evaluate local (simple, scaled): ids met in the loop
    ranked,           \* _evaluate local: sorted records with rank
    recommendation,   \* _evaluate local: output of _recommend
    decision_status,  \* result["decision_status"] (guardrailed)
    error,            \* message kind of the ValueError raised, or "none"
    output,           \* what main() wrote: "none" or "written"
    clock,            \* the time datetime.now(timezone.utc) returns
    run_id,           \* _evaluate local (guardrailed): given, or made from the clock
    evaluated_at,     \* result["evaluated_at"] (guardrailed); 0 before it is set
    earlier           \* the result of an earlier run on the same input, if any

vars ==
    <<variant, flags, data, pc, current_platform, major_platforms, score_scale, criteria, alternatives, blend, rules, results,
      seen_ids, ranked, recommendation, decision_status, error, output, clock, run_id,
      evaluated_at, earlier>>

(***************************************************************************)
(* Bounds of the model.                                                    *)
(***************************************************************************)
MaxAlts == 2

(***************************************************************************)
(* Rational arithmetic (Python float arithmetic, exact).                   *)
(***************************************************************************)
GcdF[a \in Nat, b \in Nat] == IF b = 0 THEN a ELSE GcdF[b, a % b]

Gcd(a, b) == GcdF[a, b]

Abs(n) == IF n < 0 THEN 0 - n ELSE n

\* the rational n / d (d > 0) in lowest terms
Rat(n, d) ==
    LET g == Gcd(Abs(n), d)
    IN  <<n \div g, d \div g>>

Zero == Rat(0, 1)

RAdd(a, b) == Rat(a[1] * b[2] + b[1] * a[2], a[2] * b[2])

RSub(a, b) == Rat(a[1] * b[2] - b[1] * a[2], a[2] * b[2])

RMul(a, b) == Rat(a[1] * b[1], a[2] * b[2])

\* a / b for b > 0
RDiv(a, b) == Rat(a[1] * b[2], a[2] * b[1])

RNeg(a) == Rat(0 - a[1], a[2])

RLt(a, b) == a[1] * b[2] < b[1] * a[2]

RLe(a, b) == a[1] * b[2] <= b[1] * a[2]

REq(a, b) == a[1] * b[2] = b[1] * a[2]

RGe(a, b) == RLe(b, a)

RMin(a, b) == IF RLe(a, b) THEN a ELSE b

RMax(a, b) == IF RLe(a, b) THEN b ELSE a

\* round(x, k) for 10^k = scale: the nearest multiple of 1/scale, ties to even
Round(x, scale) ==
    LET n == x[1] * scale
        q == n \div x[2]
        r == n % x[2]
        k == IF 2 * r < x[2] THEN q
             ELSE IF 2 * r > x[2] THEN q + 1
             ELSE IF q % 2 = 0 THEN q ELSE q + 1
    IN  Rat(k, scale)

Round2(x) == Round(x, 100)

Round3(x) == Round(x, 1000)

\* sum() of a list, left to right
RSum(s) ==
    LET acc[i \in 0..Len(s)] == IF i = 0 THEN Zero ELSE RAdd(acc[i - 1], s[i])
    IN  acc[Len(s)]

(***************************************************************************)
(* JSON values and objects.                                                *)
(***************************************************************************)
Null == [t |-> "null"]

NaN == [t |-> "nan"]

Text == [t |-> "str"]

\* a JSON array (a list)
List(s) == [t |-> "list", v |-> s]

Num(n) == [t |-> "num", v |-> Rat(n, 1)]

Frac(n, d) == [t |-> "num", v |-> Rat(n, d)]

\* dict.get(key, default)
Get(obj, key, default) == IF key \in DOMAIN obj THEN obj[key] ELSE default

\* dict(defaults); source.update(over)
Update(defaults, over) ==
    [k \in DOMAIN defaults \cup DOMAIN over |->
        IF k \in DOMAIN over THEN over[k] ELSE defaults[k]]

\* Range of a sequence
Range(s) == {s[i] : i \in DOMAIN s}

(***************************************************************************)
(* Strings that are lower-cased and compared: sequences of character codes *)
(***************************************************************************)
LowerChar(c) == IF c >= 65 /\ c <= 90 THEN c + 32 ELSE c

\* str.lower()
Lower(s) == [i \in DOMAIN s |-> LowerChar(s[i])]

\* s < t for Python strings (lexicographic on code points)
StrLt(s, t) ==
    \/ \E i \in DOMAIN s \cap DOMAIN t :
          /\ \A j \in 1..(i - 1) : s[j] = t[j]
          /\ s[i] < t[i]
    \/ /\ Len(s) < Len(t)
       /\ \A j \in DOMAIN s : s[j] = t[j]

\* str.strip() on a sequence of character codes (32 is the space)
Strip(s) ==
    LET kept == {i \in DOMAIN s : s[i] # 32}
    IN  IF kept = {} THEN <<>>
        ELSE SubSeq(s, CHOOSE i \in kept : \A j \in kept : i <= j,
                       CHOOSE i \in kept : \A j \in kept : j <= i)

\* str.strip() on the texts that are only tested for emptiness or membership
StripText(s) == IF s \in {"", " "} THEN "" ELSE s

\* the texts the code compares with, as character codes
S_s == <<115>>

S_m == <<109>>

S_l == <<108>>

S_S == <<83>>

S_M == <<77>>

S_L == <<76>>

S_low == <<108, 111, 119>>

S_med == <<109, 101, 100>>

S_medium == <<109, 101, 100, 105, 117, 109>>

S_high == <<104, 105, 103, 104>>

S_Low == <<76, 111, 119>>

S_Med == <<77, 101, 100>>

S_High == <<72, 105, 103, 104>>

(***************************************************************************)
(* Module constants of the scripts.                                        *)
(***************************************************************************)
DEFAULT_MAJOR_PLATFORMS == <<"chatgpt", "claude", "gemini", "copilot">>

DEFAULT_MAJOR_PLATFORMS_simple == <<"chatgpt", "claude", "gemini", "copilot">>

DEFAULT_MAJOR_PLATFORMS_scaled == <<"codex", "copilot", "claude", "gemini">>

DEFAULT_BLEND ==
    [major_platform_average |-> Frac(6, 10), current_platform |-> Frac(4, 10)]

DEFAULT_RULES_simple ==
    [select_min |-> Num(80), select_margin |-> Num(7), compose_min |-> Num(70),
     compose_margin |-> Num(7), improve_min |-> Num(55), extend_gap |-> Num(10)]

DEFAULT_RULES_scaled ==
    [select_min |-> Num(80), select_margin |-> Num(7), compose_min |-> Num(70),
     compose_margin |-> Num(7), improve_min |-> Num(55), extend_gap |-> Num(10)]

DEFAULT_RULES ==
    [select_min |-> Num(80), select_margin |-> Num(7), compose_min |-> Num(70),
     compose_margin |-> Num(7), improve_min |-> Num(55), extend_gap |-> Num(10),
     min_coverage |-> Frac(8, 10)]

EFFORT_ORDER == (S_s :> 0) @@ (S_m :> 1) @@ (S_l :> 2)

RISK_ORDER == (S_low :> 0) @@ (S_med :> 1) @@ (S_medium :> 1) @@ (S_high :> 2)

(***************************************************************************)
(* Results of a function that may raise ValueError.                        *)
(***************************************************************************)
Ok(x) == [err |-> "none", val |-> x]

Err(m) == [err |-> m]

\* a JSON object (dict), as opposed to a scalar
IsObject(x) == "t" \notin DOMAIN x

\* _to_float succeeds: float(value) is a finite number
IsFloat(value) == value.t = "num"

\* the number _to_float returns
_to_float(value) == value.v

\* the ValueError _to_float raises for a value that is not a finite number
FloatErr(value) ==
    IF value.t = "nan" THEN "Invalid numeric value" ELSE "Expected numeric value"

\* str(value or "0-100").strip().lower(): the two accepted values hold no
\* letters, so lower() neither makes nor unmakes a match
_normalize_score_scale(value) ==
    LET raw == IF value = "" THEN "0-100" ELSE StripText(value)
    IN  IF raw \notin {"0-100", "1-5"}
        THEN Err("score_scale must be '0-100' or '1-5'")
        ELSE Ok(raw)

\* clamp of the simple variant
_clamp_score(value) ==
    LET score == _to_float(value)
    IN  IF RLt(score, Zero) THEN Zero
        ELSE IF RLt(Rat(100, 1), score) THEN Rat(100, 1)
        ELSE score

\* scale conversion and clamp of the scaled variant
_to_percent_score_scaled(value, scale) ==
    LET raw == _to_float(value)
        score == IF scale = "1-5" THEN RMul(raw, Rat(20, 1)) ELSE raw
    IN  IF RLt(score, Zero) THEN Zero
        ELSE IF RLt(Rat(100, 1), score) THEN Rat(100, 1)
        ELSE score

\* the scale conversion without the clamp
_to_percent_score_unclamped(value, scale) ==
    LET raw == _to_float(value)
    IN  IF scale = "1-5" THEN RMul(raw, Rat(20, 1)) ELSE raw

\* scale conversion and clamp of the guardrailed variant
_to_percent_score(value, scale) ==
    LET raw == _to_float(value)
        score == IF scale = "1-5" THEN RMul(raw, Rat(20, 1)) ELSE raw
    IN  RMin(Rat(100, 1), RMax(Zero, score))

\* the blend checked but not rescaled
_normalize_blend_unscaled(weights) ==
    LET source == IF IsObject(weights) THEN Update(DEFAULT_BLEND, weights)
                  ELSE DEFAULT_BLEND
        mj == source["major_platform_average"]
        cu == source["current_platform"]
    IN  IF ~IsFloat(mj) THEN Err(FloatErr(mj))
        ELSE IF ~IsFloat(cu) THEN Err(FloatErr(cu))
        ELSE LET major == _to_float(mj)
                 current == _to_float(cu)
                 total == RAdd(major, current)
             IN  IF RLt(major, Zero) \/ RLt(current, Zero)
                 THEN Err("Blend weights must be non-negative")
                 ELSE IF RLe(total, Zero)
                 THEN Err("Blend weights must sum to a positive value")
                 ELSE Ok([major_platform_average |-> major,
                          current_platform |-> current])

\* the same code in the three scripts
_normalize_blend(weights) ==
    LET source == IF IsObject(weights) THEN Update(DEFAULT_BLEND, weights)
                  ELSE DEFAULT_BLEND
        mj == source["major_platform_average"]
        cu == source["current_platform"]
    IN  IF ~IsFloat(mj) THEN Err(FloatErr(mj))
        ELSE IF ~IsFloat(cu) THEN Err(FloatErr(cu))
        ELSE LET major == _to_float(mj)
                 current == _to_float(cu)
                 total == RAdd(major, current)
             IN  IF RLt(major, Zero) \/ RLt(current, Zero)
                 THEN Err("Blend weights must be non-negative")
                 ELSE IF RLe(total, Zero)
                 THEN Err("Blend weights must sum to a positive value")
                 ELSE Ok([major_platform_average |-> RDiv(major, total),
                          current_platform |-> RDiv(current, total)])

\* _normalize_rules of the simple and scaled variants (defaults passed in)
NormalizeRulesOver(defaults, over) ==
    LET source == IF IsObject(over) THEN Update(defaults, over) ELSE defaults
    IN  IF \E k \in DOMAIN source : ~IsFloat(source[k])
        THEN Err(FloatErr(source[CHOOSE k \in DOMAIN source : ~IsFloat(source[k])]))
        ELSE Ok([k \in DOMAIN source |-> _to_float(source[k])])

_normalize_rules_simple(over) == NormalizeRulesOver(DEFAULT_RULES_simple, over)

_normalize_rules_scaled(over) == NormalizeRulesOver(DEFAULT_RULES_scaled, over)

_normalize_rules(over) ==
    LET source == IF IsObject(over) THEN Update(DEFAULT_RULES, over)
                  ELSE DEFAULT_RULES
    IN  IF \E k \in DOMAIN source : ~IsFloat(source[k])
        THEN Err(FloatErr(source[CHOOSE k \in DOMAIN source : ~IsFloat(source[k])]))
        ELSE LET normalized == [k \in DOMAIN source |-> _to_float(source[k])]
                 min_coverage == normalized["min_coverage"]
             IN  IF RLt(min_coverage, Zero) \/ RLt(Rat(1, 1), min_coverage)
                 THEN Err("recommendation_rules.min_coverage must be between 0 and 1")
                 ELSE Ok(normalized)

\* least element of a non-empty set of integers
MinOf(set) == CHOOSE i \in set : \A j \in set : i <= j

\* _normalize_weights: the same code in the simple and the scaled script
_normalize_weights(crit) ==
    IF crit = <<>> THEN Err("At least one criterion is required")
    ELSE
    LET id(i) == StripText(Get(crit[i], "id", ""))
        errAt(i) ==
            IF ~IsObject(crit[i]) THEN "criteria[i] must be an object"
            ELSE IF id(i) = "" THEN "criteria[i].id is required"
            ELSE IF \E j \in 1..(i - 1) : id(j) = id(i)
            THEN "Duplicate criterion id"
            ELSE IF ~IsFloat(Get(crit[i], "weight", Num(0)))
            THEN FloatErr(Get(crit[i], "weight", Num(0)))
            ELSE IF RLt(_to_float(Get(crit[i], "weight", Num(0))), Zero)
            THEN "criteria[i].weight must be non-negative"
            ELSE "none"
        bad == {i \in DOMAIN crit : errAt(i) # "none"}
        weight(i) == _to_float(Get(crit[i], "weight", Num(0)))
        total_weight == RSum([i \in DOMAIN crit |-> weight(i)])
        name(i) ==
            IF StripText(Get(crit[i], "name", id(i))) = "" THEN id(i)
            ELSE StripText(Get(crit[i], "name", id(i)))
    IN  IF bad # {} THEN Err(errAt(MinOf(bad)))
        ELSE IF RLe(total_weight, Zero)
        THEN Err("Sum of criterion weights must be greater than zero")
        ELSE Ok([i \in DOMAIN crit |->
                    [id |-> id(i), name |-> name(i),
                     weight |-> RDiv(weight(i), total_weight)]])

_normalize_criteria(crit) ==
    IF crit = <<>> THEN Err("At least one criterion is required")
    ELSE
    LET id(i) == StripText(Get(crit[i], "id", ""))
        field(i, f) == StripText(Get(crit[i], f, ""))
        errAt(i) ==
            IF ~IsObject(crit[i]) THEN "criteria[i] must be an object"
            ELSE IF id(i) = "" THEN "criteria[i].id is required"
            ELSE IF \E j \in 1..(i - 1) : id(j) = id(i)
            THEN "Duplicate criterion id"
            ELSE IF field(i, "name") = "" THEN "criteria[i].name is required"
            ELSE IF field(i, "metric") = "" THEN "criteria[i].metric is required"
            ELSE IF field(i, "data_source") = ""
            THEN "criteria[i].data_source is required"
            ELSE IF field(i, "scoring_rule") = ""
            THEN "criteria[i].scoring_rule is required"
            ELSE IF ~IsFloat(Get(crit[i], "weight", Num(0)))
            THEN FloatErr(Get(crit[i], "weight", Num(0)))
            ELSE IF RLt(_to_float(Get(crit[i], "weight", Num(0))), Zero)
            THEN "criteria[i].weight must be non-negative"
            ELSE "none"
        bad == {i \in DOMAIN crit : errAt(i) # "none"}
        weight(i) == _to_float(Get(crit[i], "weight", Num(0)))
        total_weight == RSum([i \in DOMAIN crit |-> weight(i)])
    IN  IF bad # {} THEN Err(errAt(MinOf(bad)))
        ELSE IF RLe(total_weight, Zero)
        THEN Err("Sum of criterion weights must be greater than zero")
        ELSE Ok([i \in DOMAIN crit |->
                    [id |-> id(i), name |-> field(i, "name"),
                     weight |-> RDiv(weight(i), total_weight),
                     metric |-> field(i, "metric"),
                     data_source |-> field(i, "data_source"),
                     scoring_rule |-> field(i, "scoring_rule")]])

(***************************************************************************)
(* Alternatives (guardrailed).  id, name, effort, risk and                 *)
(* evidence_strength are character-code strings; type, justification,      *)
(* source_url and source_date are texts.  evidence is absent, Null, Text   *)
(* (not a list) or [t |-> "list", v |-> <<entries>>].                      *)
(***************************************************************************)
S_strengths == {S_low, S_medium, S_high}

\* a check that only asks for some evidence entry
EvidenceError_nonempty_only(evidence) ==
    IF evidence.v = <<>>
    THEN "alternatives[i] with type 'external' must include evidence entries"
    ELSE "none"

\* the error of one evidence list of an external alternative, or "none"
EvidenceError(evidence) ==
    LET items == evidence.v
        url(i) == StripText(Get(items[i], "source_url", ""))
        date(i) == StripText(Get(items[i], "source_date", ""))
        strength(i) == Lower(Strip(Get(items[i], "evidence_strength", <<>>)))
        errAt(i) ==
            IF ~IsObject(items[i]) THEN "evidence[j] must be an object"
            ELSE IF url(i) = "" THEN "evidence[j].source_url is required"
            ELSE IF date(i) = "" THEN "evidence[j].source_date is required"
            ELSE IF strength(i) \notin S_strengths
            THEN "evidence[j].evidence_strength must be low|medium|high"
            ELSE "none"
        bad == {i \in DOMAIN items : errAt(i) # "none"}
    IN  IF items = <<>>
        THEN "alternatives[i] with type 'external' must include evidence entries"
        ELSE IF bad # {} THEN errAt(MinOf(bad))
        ELSE "none"

\* feasible = bool(alt.get("feasible", True)): the documents give a JSON
\* boolean or leave the key out
_normalize_alternatives(given, allow_single_option) ==
    IF given.t # "list" \/ given.v = <<>>
    THEN Err("alternatives must be a non-empty array")
    ELSE IF Len(given.v) < 2 /\ ~allow_single_option
    THEN Err("At least two alternatives are required for scoring")
    ELSE
    LET alts == given.v
        alt_id(i) == Strip(Get(alts[i], "id", <<>>))
        name(i) ==
            IF Strip(Get(alts[i], "name", alt_id(i))) = <<>> THEN alt_id(i)
            ELSE Strip(Get(alts[i], "name", alt_id(i)))
        alt_type(i) == StripText(Get(alts[i], "type", ""))
        effort(i) == Strip(Get(alts[i], "effort", <<>>))
        risk(i) == Strip(Get(alts[i], "risk", <<>>))
        justification(i) == StripText(Get(alts[i], "justification", ""))
        scores(i) == Get(alts[i], "scores", <<>>)
        evidence(i) ==
            IF Get(alts[i], "evidence", Null) = Null THEN List(<<>>)
            ELSE alts[i]["evidence"]
        errAt(i) ==
            IF ~IsObject(alts[i]) THEN "alternatives[i] must be an object"
            ELSE IF alt_id(i) = <<>> THEN "alternatives[i].id is required"
            ELSE IF \E j \in 1..(i - 1) : alt_id(j) = alt_id(i)
            THEN "Duplicate alternative id"
            ELSE IF alt_type(i) \notin {"internal", "compose", "external", "build-new"}
            THEN "alternatives[i].type must be one of internal|compose|external|build-new"
            ELSE IF effort(i) \notin {S_S, S_M, S_L}
            THEN "alternatives[i].effort must be S, M, or L"
            ELSE IF risk(i) \notin {S_Low, S_Med, S_High}
            THEN "alternatives[i].risk must be Low, Med, or High"
            ELSE IF justification(i) = ""
            THEN "alternatives[i].justification is required"
            ELSE IF ~IsObject(scores(i))
            THEN "alternatives[i].scores must be an object"
            ELSE IF evidence(i).t # "list"
            THEN "alternatives[i].evidence must be an array when provided"
            ELSE IF alt_type(i) = "external" THEN EvidenceError(evidence(i))
            ELSE "none"
        bad == {i \in DOMAIN alts : errAt(i) # "none"}
    IN  IF bad # {} THEN Err(errAt(MinOf(bad)))
        ELSE Ok([i \in DOMAIN alts |->
                    [id |-> alt_id(i), name |-> name(i), type |-> alt_type(i),
                     effort |-> effort(i), risk |-> risk(i),
                     feasible |-> Get(alts[i], "feasible", TRUE),
                     scores |-> scores(i), evidence |-> evidence(i).v,
                     justification |-> justification(i),
                     notes |-> Get(alts[i], "notes", "")]])

\* the same code in the scaled and the guardrailed script
_effort_rank(value) ==
    LET key == Lower(Strip(value))
    IN  IF key \in DOMAIN EFFORT_ORDER THEN EFFORT_ORDER[key] ELSE 9

_risk_rank(value) ==
    LET key == Lower(Strip(value))
    IN  IF key \in DOMAIN RISK_ORDER THEN RISK_ORDER[key] ELSE 9

(***************************************************************************)
(* _platform_score of the three scripts.                                   *)
(***************************************************************************)
\* scores_by_platform.get(platform, {}), with None read as {}
PlatformScores(alternative, platform) ==
    LET platform_scores == Get(Get(alternative, "scores", <<>>), platform, <<>>)
    IN  IF platform_scores = Null THEN <<>> ELSE platform_scores

\* simple: zero-fill, clamp only
_platform_score_simple(option, platform, crit) ==
    LET platform_scores == PlatformScores(option, platform)
        raw(i) == Get(platform_scores, crit[i].id, Null)
        badv == {i \in DOMAIN crit : raw(i) # Null /\ ~IsFloat(raw(i))}
        value(i) == IF raw(i) = Null THEN Zero ELSE _clamp_score(raw(i))
    IN  IF ~IsObject(platform_scores)
        THEN Err("non-object score map for platform")
        ELSE IF badv # {} THEN Err(FloatErr(raw(MinOf(badv))))
        ELSE Ok([score |-> RSum([i \in DOMAIN crit |-> RMul(crit[i].weight, value(i))]),
                 missing |-> Cardinality({i \in DOMAIN crit : raw(i) = Null})])

\* scaled: zero-fill, scale conversion and clamp
_platform_score_scaled(option, platform, crit, scale) ==
    LET platform_scores == PlatformScores(option, platform)
        raw(i) == Get(platform_scores, crit[i].id, Null)
        badv == {i \in DOMAIN crit : raw(i) # Null /\ ~IsFloat(raw(i))}
        value(i) ==
            IF raw(i) = Null THEN Zero
            ELSE _to_percent_score_scaled(raw(i), scale)
    IN  IF ~IsObject(platform_scores)
        THEN Err("non-object score map for platform")
        ELSE IF badv # {} THEN Err(FloatErr(raw(MinOf(badv))))
        ELSE Ok([score |-> RSum([i \in DOMAIN crit |-> RMul(crit[i].weight, value(i))]),
                 missing |-> Cardinality({i \in DOMAIN crit : raw(i) = Null})])

\* the guardrailed score with a missing score counted as 0 at its full weight
_platform_score_zero_filled(alternative, platform, crit, scale) ==
    LET platform_scores == PlatformScores(alternative, platform)
        raw(i) == Get(platform_scores, crit[i].id, Null)
        badv == {i \in DOMAIN crit : raw(i) # Null /\ ~IsFloat(raw(i))}
        numerator ==
            RSum([i \in DOMAIN crit |->
                    IF raw(i) = Null THEN Zero
                    ELSE RMul(crit[i].weight, _to_percent_score(raw(i), scale))])
        covered_weight ==
            RSum([i \in DOMAIN crit |-> IF raw(i) = Null THEN Zero ELSE crit[i].weight])
    IN  IF ~IsObject(platform_scores)
        THEN Err("non-object scores for platform")
        ELSE IF badv # {} THEN Err(FloatErr(raw(MinOf(badv))))
        ELSE Ok([score |-> numerator,
                 missing |-> Cardinality({i \in DOMAIN crit : raw(i) = Null}),
                 coverage |-> covered_weight])

\* the guardrailed score with the coverage counted in criteria, not in weight
_platform_score_counted(alternative, platform, crit, scale) ==
    LET platform_scores == PlatformScores(alternative, platform)
        raw(i) == Get(platform_scores, crit[i].id, Null)
        badv == {i \in DOMAIN crit : raw(i) # Null /\ ~IsFloat(raw(i))}
        numerator ==
            RSum([i \in DOMAIN crit |->
                    IF raw(i) = Null THEN Zero
                    ELSE RMul(crit[i].weight, _to_percent_score(raw(i), scale))])
        covered_weight ==
            RSum([i \in DOMAIN crit |-> IF raw(i) = Null THEN Zero ELSE crit[i].weight])
    IN  IF ~IsObject(platform_scores)
        THEN Err("non-object scores for platform")
        ELSE IF badv # {} THEN Err(FloatErr(raw(MinOf(badv))))
        ELSE Ok([score |-> IF RLt(Zero, covered_weight)
                           THEN RDiv(numerator, covered_weight) ELSE Zero,
                 missing |-> Cardinality({i \in DOMAIN crit : raw(i) = Null}),
                 coverage |-> Rat(Cardinality({i \in DOMAIN crit : raw(i) # Null}),
                                  Len(crit))])

\* guardrailed: a missing score is skipped, the average is over the covered weight
_platform_score(alternative, platform, crit, scale) ==
    LET platform_scores == PlatformScores(alternative, platform)
        raw(i) == Get(platform_scores, crit[i].id, Null)
        badv == {i \in DOMAIN crit : raw(i) # Null /\ ~IsFloat(raw(i))}
        numerator ==
            RSum([i \in DOMAIN crit |->
                    IF raw(i) = Null THEN Zero
                    ELSE RMul(crit[i].weight, _to_percent_score(raw(i), scale))])
        covered_weight ==
            RSum([i \in DOMAIN crit |-> IF raw(i) = Null THEN Zero ELSE crit[i].weight])
    IN  IF ~IsObject(platform_scores)
        THEN Err("non-object scores for platform")
        ELSE IF badv # {} THEN Err(FloatErr(raw(MinOf(badv))))
        ELSE Ok([score |-> IF RLt(Zero, covered_weight)
                           THEN RDiv(numerator, covered_weight) ELSE Zero,
                 missing |-> Cardinality({i \in DOMAIN crit : raw(i) = Null}),
                 coverage |-> covered_weight])

(***************************************************************************)
(* sorted(results, key=...): a stable sort on a tuple key.  A key          *)
(* component is a number [n |-> rational] or a string [s |-> codes].       *)
(***************************************************************************)
KNum(x) == [n |-> x]

KInt(i) == [n |-> Rat(i, 1)]

\* Python orders False before True
KBool(b) == [n |-> IF b THEN Rat(1, 1) ELSE Zero]

KStr(x) == [s |-> x]

CompLt(x, y) == IF "n" \in DOMAIN x THEN RLt(x.n, y.n) ELSE StrLt(x.s, y.s)

\* tuple comparison a < b (keys of one sort have the same length)
TupleLt(a, b) ==
    \E i \in DOMAIN a :
        /\ \A j \in 1..(i - 1) : ~CompLt(a[j], b[j]) /\ ~CompLt(b[j], a[j])
        /\ CompLt(a[i], b[i])

\* the key lambda of the simple script
SortKey_simple(item) ==
    <<KNum(RNeg(item.overall_success_score)),
      KNum(RNeg(item.current_platform_score)),
      KNum(RNeg(item.major_platform_average)),
      KStr(Lower(item.name))>>

\* the key lambda of the scaled script
SortKey_scaled(item) ==
    <<KNum(RNeg(item.overall_success_score)),
      KNum(RNeg(item.current_platform_score)),
      KNum(RNeg(item.major_platform_average)),
      KInt(item.effort_rank),
      KInt(item.risk_rank),
      KStr(Lower(item.name))>>

\* the guardrailed key without its feasibility component
SortKey_no_feasible(item) ==
    <<KNum(RNeg(item.overall_success_score)),
      KNum(RNeg(item.current_platform_score)),
      KNum(RNeg(item.major_platform_average)),
      KInt(item.effort_rank),
      KInt(item.risk_rank),
      KStr(Lower(item.name))>>

\* the key lambda of the guardrailed script
SortKey(item) ==
    <<KBool(~item.feasible),
      KNum(RNeg(item.overall_success_score)),
      KNum(RNeg(item.current_platform_score)),
      KNum(RNeg(item.major_platform_average)),
      KInt(item.effort_rank),
      KInt(item.risk_rank),
      KStr(Lower(item.name))>>

KeyOf(v, item) ==
    IF v = "simple" THEN SortKey_simple(item)
    ELSE IF v = "scaled" THEN SortKey_scaled(item)
    ELSE SortKey(item)

\* stable insertion of x into the sorted sequence s, after every element
\* whose key is not greater
Insert(v, s, x) ==
    LET p == Cardinality({i \in DOMAIN s : ~TupleLt(KeyOf(v, x), KeyOf(v, s[i]))})
    IN  SubSeq(s, 1, p) \o <<x>> \o SubSeq(s, p + 1, Len(s))

\* sorted(): stable, so equal keys keep their input order
Sorted(v, s) ==
    LET done[i \in 0..Len(s)] ==
            IF i = 0 THEN <<>> ELSE Insert(v, done[i - 1], s[i])
    IN  done[Len(s)]

\* enumerate(ranked) without start=1
WithRank_from_zero(s) ==
    [i \in DOMAIN s |->
        [k \in DOMAIN s[i] \cup {"rank"} |-> IF k = "rank" THEN i - 1 ELSE s[i][k]]]

\* for rank, item in enumerate(ranked, start=1): item["rank"] = rank
WithRank(s) ==
    [i \in DOMAIN s |->
        [k \in DOMAIN s[i] \cup {"rank"} |-> IF k = "rank" THEN i ELSE s[i][k]]]

(***************************************************************************)
(* _recommend of the three scripts.  rk is the ranked list, rl the rules.  *)
(***************************************************************************)
\* the branches of the simple script with compose tried before select
_recommend_simple_compose_first(rk, rl) ==
    LET best == rk[1]
        has_second == Len(rk) > 1
        margin ==
            IF has_second
            THEN RSub(best.overall_success_score, rk[2].overall_success_score)
            ELSE best.overall_success_score
        branch ==
            IF has_second
               /\ RGe(best.overall_success_score, rl["compose_min"])
               /\ RLt(margin, rl["compose_margin"])
            THEN [action |-> "compose", chosen |-> <<best.id, rk[2].id>>,
                  reason |-> "Top two options are strong and close"]
            ELSE IF RGe(best.overall_success_score, rl["select_min"])
                    /\ RGe(margin, rl["select_margin"])
            THEN [action |-> "select", chosen |-> <<best.id>>,
                  reason |-> "Top option exceeds select threshold"]
            ELSE IF RGe(best.overall_success_score, rl["improve_min"])
            THEN IF RGe(RSub(best.major_platform_average, best.current_platform_score),
                        rl["extend_gap"])
                 THEN [action |-> "extend", chosen |-> <<best.id>>,
                       reason |-> "Top option performs better across major platforms; adaptation"]
                 ELSE [action |-> "improve", chosen |-> <<best.id>>,
                       reason |-> "Top option is viable but below direct-select threshold"]
            ELSE [action |-> "build-new", chosen |-> <<>>,
                  reason |-> "No option meets minimum viability threshold"]
    IN  [action |-> branch.action,
         chosen_option_ids |-> branch.chosen,
         top_option_id |-> best.id,
         score_margin_vs_second |-> Round2(margin),
         reason |-> branch.reason,
         rules |-> rl]

_recommend_simple(rk, rl) ==
    LET best == rk[1]
        has_second == Len(rk) > 1
        margin ==
            IF has_second
            THEN RSub(best.overall_success_score, rk[2].overall_success_score)
            ELSE best.overall_success_score
        branch ==
            IF RGe(best.overall_success_score, rl["select_min"])
               /\ RGe(margin, rl["select_margin"])
            THEN [action |-> "select", chosen |-> <<best.id>>,
                  reason |-> "Top option exceeds select threshold"]
            ELSE IF has_second
                    /\ RGe(best.overall_success_score, rl["compose_min"])
                    /\ RLt(margin, rl["compose_margin"])
            THEN [action |-> "compose", chosen |-> <<best.id, rk[2].id>>,
                  reason |-> "Top two options are strong and close"]
            ELSE IF RGe(best.overall_success_score, rl["improve_min"])
            THEN IF RGe(RSub(best.major_platform_average, best.current_platform_score),
                        rl["extend_gap"])
                 THEN [action |-> "extend", chosen |-> <<best.id>>,
                       reason |-> "Top option performs better across major platforms; adaptation"]
                 ELSE [action |-> "improve", chosen |-> <<best.id>>,
                       reason |-> "Top option is viable but below direct-select threshold"]
            ELSE [action |-> "build-new", chosen |-> <<>>,
                  reason |-> "No option meets minimum viability threshold"]
    IN  [action |-> branch.action,
         chosen_option_ids |-> branch.chosen,
         top_option_id |-> best.id,
         score_margin_vs_second |-> Round2(margin),
         reason |-> branch.reason,
         rules |-> rl]

\* the branches of the scaled script with the platform gap taken the wrong way round
_recommend_scaled_gap_reversed(rk, rl) ==
    LET best == rk[1]
        has_second == Len(rk) > 1
        margin ==
            IF has_second
            THEN RSub(best.overall_success_score, rk[2].overall_success_score)
            ELSE best.overall_success_score
        branch ==
            IF RGe(best.overall_success_score, rl["select_min"])
               /\ RGe(margin, rl["select_margin"])
            THEN [action |-> "select", chosen |-> <<best.id>>,
                  reason |-> "Top option exceeds select threshold"]
            ELSE IF has_second
                    /\ RGe(best.overall_success_score, rl["compose_min"])
                    /\ RLt(margin, rl["compose_margin"])
            THEN [action |-> "compose", chosen |-> <<best.id, rk[2].id>>,
                  reason |-> "Top two options are strong and close"]
            ELSE IF RGe(best.overall_success_score, rl["improve_min"])
            THEN IF RGe(RSub(best.current_platform_score, best.major_platform_average),
                        rl["extend_gap"])
                 THEN [action |-> "extend", chosen |-> <<best.id>>,
                       reason |-> "Top option performs better across major platforms; targeted extension"]
                 ELSE [action |-> "improve", chosen |-> <<best.id>>,
                       reason |-> "Top option is viable but below direct-select threshold"]
            ELSE [action |-> "build-new", chosen |-> <<>>,
                  reason |-> "No option meets minimum viability threshold"]
    IN  [action |-> branch.action,
         chosen_option_ids |-> branch.chosen,
         top_option_id |-> best.id,
         score_margin_vs_second |-> Round2(margin),
         reason |-> branch.reason,
         rules |-> rl]

_recommend_scaled(rk, rl) ==
    LET best == rk[1]
        has_second == Len(rk) > 1
        margin ==
            IF has_second
            THEN RSub(best.overall_success_score, rk[2].overall_success_score)
            ELSE best.overall_success_score
        branch ==
            IF RGe(best.overall_success_score, rl["select_min"])
               /\ RGe(margin, rl["select_margin"])
            THEN [action |-> "select", chosen |-> <<best.id>>,
                  reason |-> "Top option exceeds select threshold"]
            ELSE IF has_second
                    /\ RGe(best.overall_success_score, rl["compose_min"])
                    /\ RLt(margin, rl["compose_margin"])
            THEN [action |-> "compose", chosen |-> <<best.id, rk[2].id>>,
                  reason |-> "Top two options are strong and close"]
            ELSE IF RGe(best.overall_success_score, rl["improve_min"])
            THEN IF RGe(RSub(best.major_platform_average, best.current_platform_score),
                        rl["extend_gap"])
                 THEN [action |-> "extend", chosen |-> <<best.id>>,
                       reason |-> "Top option performs better across major platforms; targeted extension"]
                 ELSE [action |-> "improve", chosen |-> <<best.id>>,
                       reason |-> "Top option is viable but below direct-select threshold"]
            ELSE [action |-> "build-new", chosen |-> <<>>,
                  reason |-> "No option meets minimum viability threshold"]
    IN  [action |-> branch.action,
         chosen_option_ids |-> branch.chosen,
         top_option_id |-> best.id,
         score_margin_vs_second |-> Round2(margin),
         reason |-> branch.reason,
         rules |-> rl]

\* a filter that keeps every ranked item
FeasibleOf_all(rk) == rk

\* [item for item in ranked if item["feasible"]]
FeasibleOf(rk) == SelectSeq(rk, LAMBDA item : item.feasible)

\* a coverage gate that is always open
best_coverage_ok_always(best, rl) == TRUE

\* a gate on the share of populated value slots
best_coverage_ok_by_count(best, rl) == RGe(best.count_coverage, rl["min_coverage"])

\* best["coverage"] >= rules["min_coverage"]
best_coverage_ok(best, rl) == RGe(best.coverage, rl["min_coverage"])

\* a gate that only asks whether there is a second feasible item
second_coverage_ok_always(feasible, rl) == Len(feasible) > 1

\* bool(second and second["coverage"] >= rules["min_coverage"])
second_coverage_ok(feasible, rl) ==
    Len(feasible) > 1 /\ RGe(feasible[2].coverage, rl["min_coverage"])

\* a result that reports no margin at all
Rec_margin_zero(action, chosen, top, margin, reason, rl) ==
    [action |-> action,
     chosen_option_ids |-> chosen,
     top_option_id |-> top,
     score_margin_vs_second |-> Zero,
     reason |-> reason,
     rules |-> rl]

\* a result that always names the top option as chosen
Rec_top_chosen(action, chosen, top, margin, reason, rl) ==
    [action |-> action,
     chosen_option_ids |-> <<top>>,
     top_option_id |-> top,
     score_margin_vs_second |-> margin,
     reason |-> reason,
     rules |-> rl]

\* the dict every return of the guardrailed _recommend builds
Rec(action, chosen, top, margin, reason, rl) ==
    [action |-> action,
     chosen_option_ids |-> chosen,
     top_option_id |-> top,
     score_margin_vs_second |-> margin,
     reason |-> reason,
     rules |-> rl]

\* the guardrailed branches without the single-feasible case
_recommend_margin_rules_only(rk, rl) ==
    LET feasible == FeasibleOf(rk)
    IN
    IF feasible = <<>>
    THEN Rec("no-go", <<>>, rk[1].id, Zero,
             "All discovered alternatives are infeasible", rl)
    ELSE
    LET best == feasible[1]
        has_second == Len(feasible) > 1
        margin ==
            IF has_second
            THEN RSub(best.overall_success_score, feasible[2].overall_success_score)
            ELSE Zero
    IN
    IF RGe(best.overall_success_score, rl["select_min"])
            /\ RGe(margin, rl["select_margin"])
            /\ best_coverage_ok(best, rl)
    THEN Rec("select", <<best.id>>, best.id, Round2(margin),
             "Top feasible option exceeds select threshold and margin", rl)
    ELSE IF RGe(best.overall_success_score, rl["compose_min"])
            /\ RLt(margin, rl["compose_margin"])
            /\ best_coverage_ok(best, rl)
            /\ second_coverage_ok(feasible, rl)
    THEN Rec("compose", <<best.id, feasible[2].id>>, best.id, Round2(margin),
             "Top two feasible options are strong, close, and both satisfy coverage gate",
             rl)
    ELSE IF RGe(best.overall_success_score, rl["improve_min"])
    THEN IF ~best_coverage_ok(best, rl)
         THEN Rec("improve", <<best.id>>, best.id, Round2(margin),
                  "Top feasible option is viable but coverage is below gate", rl)
         ELSE IF RGe(RSub(best.major_platform_average, best.current_platform_score),
                     rl["extend_gap"])
         THEN Rec("extend", <<best.id>>, best.id, Round2(margin),
                  "Top feasible option performs better across major platforms", rl)
         ELSE Rec("improve", <<best.id>>, best.id, Round2(margin),
                  "Top feasible option is viable but below direct-select threshold", rl)
    ELSE Rec("no-go", <<>>, best.id, Round2(margin),
             "No feasible option meets minimum viability threshold", rl)

_recommend(rk, rl) ==
    LET feasible == FeasibleOf(rk)
    IN
    IF feasible = <<>>
    THEN Rec("no-go", <<>>, rk[1].id, Zero,
             "All discovered alternatives are infeasible", rl)
    ELSE
    LET best == feasible[1]
        has_second == Len(feasible) > 1
        margin ==
            IF has_second
            THEN RSub(best.overall_success_score, feasible[2].overall_success_score)
            ELSE Zero
    IN
    IF Len(feasible) < 2
    THEN IF RGe(best.overall_success_score, rl["improve_min"])
         THEN Rec("improve", <<best.id>>, best.id, Zero,
                  "Only one feasible alternative remains", rl)
         ELSE Rec("no-go", <<>>, best.id, Zero,
                  "Single feasible option is below viability threshold", rl)
    ELSE IF RGe(best.overall_success_score, rl["select_min"])
            /\ RGe(margin, rl["select_margin"])
            /\ best_coverage_ok(best, rl)
    THEN Rec("select", <<best.id>>, best.id, Round2(margin),
             "Top feasible option exceeds select threshold and margin", rl)
    ELSE IF RGe(best.overall_success_score, rl["compose_min"])
            /\ RLt(margin, rl["compose_margin"])
            /\ best_coverage_ok(best, rl)
            /\ second_coverage_ok(feasible, rl)
    THEN Rec("compose", <<best.id, feasible[2].id>>, best.id, Round2(margin),
             "Top two feasible options are strong, close, and both satisfy coverage gate",
             rl)
    ELSE IF RGe(best.overall_success_score, rl["improve_min"])
    THEN IF ~best_coverage_ok(best, rl)
         THEN Rec("improve", <<best.id>>, best.id, Round2(margin),
                  "Top feasible option is viable but coverage is below gate", rl)
         ELSE IF RGe(RSub(best.major_platform_average, best.current_platform_score),
                     rl["extend_gap"])
         THEN Rec("extend", <<best.id>>, best.id, Round2(margin),
                  "Top feasible option performs better across major platforms", rl)
         ELSE Rec("improve", <<best.id>>, best.id, Round2(margin),
                  "Top feasible option is viable but below direct-select threshold", rl)
    ELSE Rec("no-go", <<>>, best.id, Round2(margin),
             "No feasible option meets minimum viability threshold", rl)

\* a status that lets only select and compose proceed
_decision_status_strict(action) ==
    IF action \in {"select", "compose"} THEN "proceed"
    ELSE IF action = "no-go" THEN "no-go"
    ELSE "defer"

_decision_status(action) ==
    IF action \in {"select", "compose", "extend"} THEN "proceed"
    ELSE IF action = "no-go" THEN "no-go"
    ELSE "defer"

(***************************************************************************)
(* _evaluate, part 1: everything before the scoring loop.                  *)
(***************************************************************************)
\* [str(p).strip() for p in major_platforms if str(p).strip()]
CleanPlatforms(mp) ==
    LET kept == SelectSeq(mp, LAMBDA q : StripText(q) # "")
    IN  [i \in DOMAIN kept |-> StripText(kept[i])]

\* the platform checks, the same code in the three scripts
PlatformError(d, defaults) ==
    LET given == Get(d, "major_platforms", Null)
        mp == IF given = Null \/ given = List(<<>>) THEN List(defaults) ELSE given
    IN  IF StripText(Get(d, "current_platform", "")) = ""
        THEN "current_platform is required"
        ELSE IF mp.t # "list" THEN "major_platforms must be a non-empty array"
        ELSE IF CleanPlatforms(mp.v) = <<>>
        THEN "major_platforms must include at least one non-empty platform name"
        ELSE "none"

MajorPlatformsOf(d, defaults) ==
    LET given == Get(d, "major_platforms", Null)
    IN  CleanPlatforms(IF given = Null \/ given = List(<<>>) THEN defaults ELSE given.v)

\* the discovery gate without the test for an external alternative
DiscoveryError_flags_only(d, alts) ==
    LET discovery == Get(d, "discovery", Null)
        external_done == Get(discovery, "external_discovery_done", FALSE)
        external_blocked == Get(discovery, "external_discovery_blocked", FALSE)
        block_reason == StripText(Get(discovery, "block_reason", ""))
    IN  IF ~IsObject(discovery) THEN "discovery object is required"
        ELSE IF ~external_done /\ ~external_blocked
        THEN "discovery must either complete external discovery or explicitly block it with reason"
        ELSE IF external_blocked /\ block_reason = ""
        THEN "discovery.block_reason is required when external discovery is blocked"
        ELSE "none"

\* the discovery gate of the guardrailed script
DiscoveryError(d, alts) ==
    LET discovery == Get(d, "discovery", Null)
        external_done == Get(discovery, "external_discovery_done", FALSE)
        external_blocked == Get(discovery, "external_discovery_blocked", FALSE)
        block_reason == StripText(Get(discovery, "block_reason", ""))
        has_external == \E i \in DOMAIN alts : alts[i].type = "external"
    IN  IF ~IsObject(discovery) THEN "discovery object is required"
        ELSE IF ~external_done /\ ~external_blocked
        THEN "discovery must either complete external discovery or explicitly block it with reason"
        ELSE IF external_blocked /\ block_reason = ""
        THEN "discovery.block_reason is required when external discovery is blocked"
        ELSE IF external_done /\ ~has_external
        THEN "external discovery was marked complete but no alternative with type 'external' was provided"
        ELSE "none"

\* what the first part of _evaluate leaves: the error raised, or the locals
Prepared(err, cp, mp, sc, cr, al, bl, rl) ==
    [err |-> err, current_platform |-> cp, major_platforms |-> mp,
     score_scale |-> sc, criteria |-> cr, alternatives |-> al,
     blend |-> bl, rules |-> rl]

Failed(err) == Prepared(err, "", <<>>, "", <<>>, <<>>, <<>>, <<>>)

Prepare_simple(d) ==
    LET perr == PlatformError(d, DEFAULT_MAJOR_PLATFORMS_simple)
        cr == _normalize_weights(Get(d, "criteria", <<>>))
        bl == _normalize_blend(Get(d, "weights", Null))
        rl == _normalize_rules_simple(Get(d, "recommendation_rules", Null))
        alts == Get(d, "alternatives", Null)
    IN  IF perr # "none" THEN Failed(perr)
        ELSE IF cr.err # "none" THEN Failed(cr.err)
        ELSE IF bl.err # "none" THEN Failed(bl.err)
        ELSE IF rl.err # "none" THEN Failed(rl.err)
        ELSE IF alts.t # "list" \/ alts.v = <<>>
        THEN Failed("alternatives must be a non-empty array")
        ELSE Prepared("none", StripText(d["current_platform"]),
                      MajorPlatformsOf(d, DEFAULT_MAJOR_PLATFORMS_simple),
                      "", cr.val, <<>>, bl.val, rl.val)

Prepare_scaled(d, allow_unconfirmed) ==
    LET perr == PlatformError(d, DEFAULT_MAJOR_PLATFORMS_scaled)
        sc == _normalize_score_scale(Get(d, "score_scale", ""))
        cr == _normalize_weights(Get(d, "criteria", <<>>))
        bl == _normalize_blend(Get(d, "weights", Null))
        rl == _normalize_rules_scaled(Get(d, "recommendation_rules", Null))
        alts == Get(d, "alternatives", Null)
    IN  IF ~allow_unconfirmed /\ Get(d, "criteria_confirmed", FALSE) # TRUE
        THEN Failed("criteria_confirmed must be true before scoring")
        ELSE IF perr # "none" THEN Failed(perr)
        ELSE IF sc.err # "none" THEN Failed(sc.err)
        ELSE IF cr.err # "none" THEN Failed(cr.err)
        ELSE IF bl.err # "none" THEN Failed(bl.err)
        ELSE IF rl.err # "none" THEN Failed(rl.err)
        ELSE IF alts.t # "list" \/ alts.v = <<>>
        THEN Failed("alternatives must be a non-empty array")
        ELSE Prepared("none", StripText(d["current_platform"]),
                      MajorPlatformsOf(d, DEFAULT_MAJOR_PLATFORMS_scaled),
                      sc.val, cr.val, <<>>, bl.val, rl.val)

Prepare(d, allow_unconfirmed, allow_single_option) ==
    LET perr == PlatformError(d, DEFAULT_MAJOR_PLATFORMS)
        sc == _normalize_score_scale(Get(d, "score_scale", ""))
        cr == _normalize_criteria(Get(d, "criteria", <<>>))
        al == _normalize_alternatives(Get(d, "alternatives", Null), allow_single_option)
        bl == _normalize_blend(Get(d, "weights", Null))
        rl == _normalize_rules(Get(d, "recommendation_rules", Null))
    IN  IF ~allow_unconfirmed /\ Get(d, "criteria_confirmed", FALSE) # TRUE
        THEN Failed("criteria_confirmed must be true before scoring")
        ELSE IF perr # "none" THEN Failed(perr)
        ELSE IF sc.err # "none" THEN Failed(sc.err)
        ELSE IF cr.err # "none" THEN Failed(cr.err)
        ELSE IF al.err # "none" THEN Failed(al.err)
        ELSE IF DiscoveryError(d, al.val) # "none"
        THEN Failed(DiscoveryError(d, al.val))
        ELSE IF bl.err # "none" THEN Failed(bl.err)
        ELSE IF rl.err # "none" THEN Failed(rl.err)
        ELSE Prepared("none", StripText(d["current_platform"]),
                      MajorPlatformsOf(d, DEFAULT_MAJOR_PLATFORMS),
                      sc.val, cr.val, al.val, bl.val, rl.val)

(***************************************************************************)
(* _evaluate, part 2: the body of the scoring loop for one alternative.    *)
(***************************************************************************)
\* sorted(set(major_platforms + [current_platform])): each platform once.
\* The order (here: of first occurrence) only decides which of several errors
\* is raised first.
RequiredPlatforms(mp, cp) ==
    LET all == mp \o <<cp>>
        first == {i \in DOMAIN all : \A j \in 1..(i - 1) : all[j] # all[i]}
    IN  [k \in 1..Cardinality(first) |->
            all[CHOOSE i \in first : Cardinality({j \in first : j < i}) = k - 1]]

\* sum() of a list of integers
ISum(s) ==
    LET acc[i \in 0..Len(s)] == IF i = 0 THEN 0 ELSE acc[i - 1] + s[i]
    IN  acc[Len(s)]

\* the aggregation with the major scores averaged over the required platforms
Aggregate_over_required(pp, rq, mp, cp, bl) ==
    LET major_scores == [i \in DOMAIN mp |-> pp[mp[i]].val.score]
        current_score == pp[cp].val.score
        major_average == RDiv(RSum(major_scores), Rat(Len(rq), 1))
        overall == RAdd(RMul(bl["major_platform_average"], major_average),
                        RMul(bl["current_platform"], current_score))
    IN  [major_average |-> major_average, current_score |-> current_score,
         overall |-> overall,
         missing_values |-> ISum([i \in DOMAIN rq |-> pp[rq[i]].val.missing])]

\* the aggregation with the major scores averaged over the platforms that
\* have a covered weight only
Aggregate_over_covered(pp, rq, mp, cp, bl) ==
    LET covered == SelectSeq(mp, LAMBDA q : RLt(Zero, pp[q].val.coverage))
        major_scores == [i \in DOMAIN covered |-> pp[covered[i]].val.score]
        current_score == pp[cp].val.score
        major_average == IF covered = <<>> THEN Zero
                         ELSE RDiv(RSum(major_scores), Rat(Len(covered), 1))
        overall == RAdd(RMul(bl["major_platform_average"], major_average),
                        RMul(bl["current_platform"], current_score))
    IN  [major_average |-> major_average, current_score |-> current_score,
         overall |-> overall,
         missing_values |-> ISum([i \in DOMAIN rq |-> pp[rq[i]].val.missing])]

\* the aggregation, the same arithmetic in the three scripts: pp maps each
\* required platform to the result of _platform_score (the scripts compute it
\* once per platform; `@@ <<>>` below makes the map a computed table too)
Aggregate(pp, rq, mp, cp, bl) ==
    LET major_scores == [i \in DOMAIN mp |-> pp[mp[i]].val.score]
        current_score == pp[cp].val.score
        major_average == RDiv(RSum(major_scores), Rat(Len(mp), 1))
        overall == RAdd(RMul(bl["major_platform_average"], major_average),
                        RMul(bl["current_platform"], current_score))
    IN  [major_average |-> major_average, current_score |-> current_score,
         overall |-> overall,
         missing_values |-> ISum([i \in DOMAIN rq |-> pp[rq[i]].val.missing])]

\* the share of the expected slots that are missing
SlotCoverage_missing_share(missing_values, expected_values) ==
    IF expected_values # 0 THEN Rat(missing_values, expected_values) ELSE Zero

\* coverage of the simple and scaled scripts: populated slots / expected slots
SlotCoverage(missing_values, expected_values) ==
    LET c == IF expected_values # 0
             THEN RSub(Rat(1, 1), Rat(missing_values, expected_values))
             ELSE Rat(1, 1)
    IN  RMax(Zero, RMin(Rat(1, 1), c))

\* the error of the id checks at the head of the loop (simple, scaled)
LoopIdError(alternative, seen) ==
    IF ~IsObject(alternative) THEN "alternatives[i] must be an object"
    ELSE IF Strip(Get(alternative, "id", <<>>)) = <<>>
    THEN "alternatives[i].id is required"
    ELSE IF Strip(Get(alternative, "id", <<>>)) \in seen
    THEN "Duplicate alternative id"
    ELSE "none"

NameOf(alternative) ==
    LET alternative_id == Strip(Get(alternative, "id", <<>>))
    IN  IF Strip(Get(alternative, "name", alternative_id)) = <<>> THEN alternative_id
        ELSE Strip(Get(alternative, "name", alternative_id))

ScoreOne_simple(alternative, seen, cr, mp, cp, bl) ==
    LET required == RequiredPlatforms(mp, cp)
        pp == [q \in Range(required) |-> _platform_score_simple(alternative, q, cr)] @@ <<>>
        bad == {i \in DOMAIN required : pp[required[i]].err # "none"}
        agg == Aggregate(pp, required, mp, cp, bl)
    IN  IF LoopIdError(alternative, seen) # "none"
        THEN Err(LoopIdError(alternative, seen))
        ELSE IF bad # {} THEN Err(pp[required[MinOf(bad)]].err)
        ELSE Ok([id |-> Strip(alternative["id"]),
                 name |-> NameOf(alternative),
                 major_platform_average |-> Round2(agg.major_average),
                 current_platform_score |-> Round2(agg.current_score),
                 overall_success_score |-> Round2(agg.overall),
                 coverage |-> Round3(SlotCoverage(agg.missing_values,
                                                  Len(cr) * Len(required))),
                 missing_values |-> agg.missing_values,
                 notes |-> Get(alternative, "notes", "")])

ScoreOne_scaled(alternative, seen, cr, mp, cp, bl, scale) ==
    LET required == RequiredPlatforms(mp, cp)
        pp == [q \in Range(required) |-> _platform_score_scaled(alternative, q, cr, scale)] @@ <<>>
        bad == {i \in DOMAIN required : pp[required[i]].err # "none"}
        agg == Aggregate(pp, required, mp, cp, bl)
        effort == Strip(Get(alternative, "effort", <<>>))
        risk == Strip(Get(alternative, "risk", <<>>))
    IN  IF LoopIdError(alternative, seen) # "none"
        THEN Err(LoopIdError(alternative, seen))
        ELSE IF bad # {} THEN Err(pp[required[MinOf(bad)]].err)
        ELSE Ok([id |-> Strip(alternative["id"]),
                 name |-> NameOf(alternative),
                 effort |-> effort,
                 risk |-> risk,
                 effort_rank |-> _effort_rank(effort),
                 risk_rank |-> _risk_rank(risk),
                 platform_scores |-> [q \in Range(required) |-> Round2(pp[q].val.score)],
                 major_platform_average |-> Round2(agg.major_average),
                 current_platform_score |-> Round2(agg.current_score),
                 overall_success_score |-> Round2(agg.overall),
                 coverage |-> Round3(SlotCoverage(agg.missing_values,
                                                  Len(cr) * Len(required))),
                 missing_values |-> agg.missing_values,
                 notes |-> Get(alternative, "notes", "")])

ScoreOne(alternative, cr, mp, cp, bl, scale) ==
    LET required == RequiredPlatforms(mp, cp)
        pp == [q \in Range(required) |-> _platform_score(alternative, q, cr, scale)] @@ <<>>
        bad == {i \in DOMAIN required : pp[required[i]].err # "none"}
        agg == Aggregate(pp, required, mp, cp, bl)
        cov == RDiv(RSum([i \in DOMAIN required |-> pp[required[i]].val.coverage]),
                    Rat(Len(required), 1))
    IN  IF bad # {} THEN Err(pp[required[MinOf(bad)]].err)
        ELSE Ok([id |-> alternative.id,
                 name |-> alternative.name,
                 type |-> alternative.type,
                 effort |-> alternative.effort,
                 risk |-> alternative.risk,
                 effort_rank |-> _effort_rank(alternative.effort),
                 risk_rank |-> _risk_rank(alternative.risk),
                 feasible |-> alternative.feasible,
                 justification |-> alternative.justification,
                 platform_scores |-> [q \in Range(required) |-> Round2(pp[q].val.score)],
                 major_platform_average |-> Round2(agg.major_average),
                 current_platform_score |-> Round2(agg.current_score),
                 overall_success_score |-> Round2(agg.overall),
                 coverage |-> Round3(RMax(Zero, RMin(Rat(1, 1), cov))),
                 count_coverage |->
                     Round3(SlotCoverage(agg.missing_values,
                                         Len(cr) * Len(required))),
                 missing_values |-> agg.missing_values,
                 notes |-> alternative.notes])

(***************************************************************************)
(* The input documents of the runs that are checked.                       *)
(***************************************************************************)
Variants == {"simple", "scaled", "guardrailed"}

\* the id of the i-th alternative: "a", "b", "c", ...
IdOf(i) == <<96 + i>>

OneCriterion ==
    <<[id |-> "fit", name |-> "Fit", weight |-> Num(1), metric |-> "m",
       data_source |-> "d", scoring_rule |-> "r"]>>

BlockedDiscovery ==
    [external_discovery_done |-> FALSE, external_discovery_blocked |-> TRUE,
     block_reason |-> "offline"]

\* an input alternative with every field the guardrailed script requires
AltDoc(i, feasible, effort, risk, major_score, current_score) ==
    [id |-> IdOf(i), type |-> "internal", effort |-> effort, risk |-> risk,
     justification |-> "j", feasible |-> feasible,
     scores |-> [claude |-> [fit |-> major_score], codex |-> [fit |-> current_score]]]

Doc(alts, rule_overrides) ==
    [criteria_confirmed |-> TRUE,
     current_platform |-> "codex",
     major_platforms |-> List(<<"claude">>),
     criteria |-> OneCriterion,
     alternatives |-> List(alts),
     discovery |-> BlockedDiscovery,
     recommendation_rules |-> rule_overrides]

\* raw scores of the decision runs: null (missing), 40 and 100
DecideValues == {Null, Num(40), Num(100)}

\* rule overrides of the decision runs
DecideRules ==
    { <<>>,
      [select_min |-> Num(60), select_margin |-> Num(0), compose_min |-> Num(60)],
      [select_min |-> Num(90), compose_min |-> Num(60)],
      [improve_min |-> Num(20), min_coverage |-> Frac(1, 2)] }

\* the simple and the scaled script never read `feasible`; the major platform
\* is always scored, the current platform may be missing
DecideChoices(v) ==
    [feasible : IF v = "guardrailed" THEN BOOLEAN ELSE {TRUE},
     major : DecideValues \ {Null},
     current : DecideValues]

DecideAltLists(v) ==
    UNION {[1..n -> DecideChoices(v)] : n \in 1..MaxAlts}

\* --allow-single-option exists in the guardrailed script only and matters
\* only for a single alternative
FlagSets(v, n) ==
    [allow_unconfirmed : {FALSE},
     allow_single_option : IF v = "guardrailed" /\ n < 2 THEN BOOLEAN ELSE {FALSE}]

RunIdOf_always_generated(d, now) == [text |-> "run-", at |-> now]

\* run_id = str(data.get("run_id", "")).strip(), or "run-<now>" when that is
\* empty: the text, and for a generated id the time it was made from
RunIdOf(d, now) ==
    IF StripText(Get(d, "run_id", "")) = "" THEN [text |-> "run-", at |-> now]
    ELSE [text |-> StripText(d["run_id"]), at |-> 0]

\* the state when main() has parsed its arguments and loaded the document
Loaded ==
    /\ pc = "start"
    /\ current_platform = ""
    /\ major_platforms = <<>>
    /\ score_scale = ""
    /\ criteria = <<>>
    /\ alternatives = <<>>
    /\ blend = <<>>
    /\ rules = <<>>
    /\ results = <<>>
    /\ seen_ids = {}
    /\ ranked = <<>>
    /\ recommendation = <<>>
    /\ decision_status = ""
    /\ error = "none"
    /\ output = "none"
    /\ clock = 1
    /\ run_id = [text |-> "", at |-> 0]
    /\ evaluated_at = 0
    /\ earlier = <<>>

Init ==
    /\ variant \in Variants
    /\ \E ch \in DecideAltLists(variant), ro \in DecideRules :
          /\ data = Doc([i \in DOMAIN ch |->
                            AltDoc(i, ch[i].feasible, S_S, S_Low,
                                   ch[i].major, ch[i].current)], ro)
          /\ flags \in FlagSets(variant, Len(ch))
    /\ Loaded

(***************************************************************************)
(* The input documents of the ranking runs: equal and unequal scores,      *)
(* efforts, risks and names whose case differs.                            *)
(***************************************************************************)
MaxRankAlts == 2

\* "B" and "a": lowercased, "a" < "b"; as written, "B" < "a"
RankNames == {<<66>>, <<97>>}

\* <<effort, risk>>
RankCosts == {<<S_S, S_Low>>, <<S_S, S_High>>, <<S_L, S_Low>>}

RankChoices(v) ==
    [feasible : IF v = "guardrailed" THEN BOOLEAN ELSE {TRUE},
     major : {Num(40), Num(100)},
     cost : RankCosts,
     name : RankNames]

RankAltLists(v) ==
    UNION {[1..n -> RankChoices(v)] : n \in 1..MaxRankAlts}

RankAltDoc(i, c) ==
    [id |-> IdOf(i), name |-> c.name, type |-> "internal", effort |-> c.cost[1],
     risk |-> c.cost[2], justification |-> "j", feasible |-> c.feasible,
     scores |-> [claude |-> [fit |-> c.major], codex |-> [fit |-> Num(40)]]]

InitRank ==
    /\ variant \in Variants
    /\ \E ch \in RankAltLists(variant) :
          /\ data = Doc([i \in DOMAIN ch |-> RankAltDoc(i, ch[i])], <<>>)
          /\ flags \in FlagSets(variant, Len(ch))
    /\ Loaded

(***************************************************************************)
(* The steps of a run.                                                     *)
(***************************************************************************)
\* _evaluate up to the scoring loop
Normalize ==
    /\ pc = "start"
    /\ LET r == IF variant = "simple" THEN Prepare_simple(data)
                ELSE IF variant = "scaled"
                THEN Prepare_scaled(data, flags.allow_unconfirmed)
                ELSE Prepare(data, flags.allow_unconfirmed, flags.allow_single_option)
       IN  /\ error' = r.err
           /\ pc' = IF r.err = "none" THEN "score" ELSE "failed"
           /\ current_platform' = r.current_platform
           /\ major_platforms' = r.major_platforms
           /\ score_scale' = r.score_scale
           /\ criteria' = r.criteria
           /\ alternatives' = r.alternatives
           /\ blend' = r.blend
           /\ rules' = r.rules
    /\ run_id' = IF variant = "guardrailed" THEN RunIdOf(data, clock) ELSE run_id
    /\ UNCHANGED <<variant, flags, data, results, seen_ids, ranked, recommendation,
                   decision_status, output, clock, evaluated_at, earlier>>

\* the list the scoring loop iterates
LoopList == IF variant = "guardrailed" THEN alternatives ELSE data.alternatives.v

\* one iteration of the scoring loop
ScoreAlternative ==
    /\ pc = "score"
    /\ Len(results) < Len(LoopList)
    /\ \E r \in {LET alternative == LoopList[Len(results) + 1]
                 IN  IF variant = "simple"
                     THEN ScoreOne_simple(alternative, seen_ids, criteria,
                                          major_platforms, current_platform, blend)
                     ELSE IF variant = "scaled"
                     THEN ScoreOne_scaled(alternative, seen_ids, criteria,
                                          major_platforms, current_platform, blend,
                                          score_scale)
                     ELSE ScoreOne(alternative, criteria, major_platforms,
                                   current_platform, blend, score_scale)} :
           IF r.err = "none"
           THEN /\ results' = Append(results, r.val)
                /\ seen_ids' = IF variant = "guardrailed" THEN seen_ids
                               ELSE seen_ids \cup {r.val.id}
                /\ UNCHANGED <<pc, error>>
           ELSE /\ pc' = "failed"
                /\ error' = r.err
                /\ UNCHANGED <<results, seen_ids>>
    /\ UNCHANGED <<variant, flags, data, current_platform, major_platforms, score_scale,
                   criteria, alternatives, blend, rules, ranked, recommendation,
                   decision_status, output, clock, run_id, evaluated_at, earlier>>

\* ranked = sorted(results, key=...); item["rank"] = rank (the items are shared
\* with results)
Rank ==
    /\ pc = "score"
    /\ Len(results) = Len(LoopList)
    /\ ranked' = WithRank(Sorted(variant, results))
    /\ results' = [i \in DOMAIN results |->
                      CHOOSE item \in Range(ranked') : item.id = results[i].id]
    /\ pc' = "recommend"
    /\ UNCHANGED <<variant, flags, data, current_platform, major_platforms, score_scale,
                   criteria, alternatives, blend, rules, seen_ids, recommendation,
                   decision_status, error, output, clock, run_id, evaluated_at, earlier>>

\* recommendation = _recommend(ranked, rules); the result dict is built
Recommend ==
    /\ pc = "recommend"
    /\ recommendation' =
           IF variant = "simple" THEN _recommend_simple(ranked, rules)
           ELSE IF variant = "scaled" THEN _recommend_scaled(ranked, rules)
           ELSE _recommend(ranked, rules)
    /\ decision_status' =
           IF variant = "guardrailed" THEN _decision_status(recommendation'.action)
           ELSE ""
    /\ evaluated_at' = IF variant = "guardrailed" THEN clock ELSE evaluated_at
    /\ pc' = "emit"
    /\ UNCHANGED <<variant, flags, data, current_platform, major_platforms, score_scale,
                   criteria, alternatives, blend, rules, results, seen_ids, ranked,
                   error, output, clock, run_id, earlier>>

\* a main() that writes the outputs of a failed run too
Emit_after_failure ==
    /\ pc \in {"emit", "failed"}
    /\ output' = "written"
    /\ pc' = IF pc = "emit" THEN "done" ELSE "failed"
    /\ UNCHANGED <<variant, flags, data, current_platform, major_platforms, score_scale,
                   criteria, alternatives, blend, rules, results, seen_ids, ranked,
                   recommendation, decision_status, error, clock, run_id, evaluated_at,
                   earlier>>

\* main() renders the report and writes the outputs
Emit ==
    /\ pc = "emit"
    /\ output' = "written"
    /\ pc' = "done"
    /\ UNCHANGED <<variant, flags, data, current_platform, major_platforms, score_scale,
                   criteria, alternatives, blend, rules, results, seen_ids, ranked,
                   recommendation, decision_status, error, clock, run_id, evaluated_at,
                   earlier>>

Next ==
    \/ Normalize
    \/ ScoreAlternative
    \/ Rank
    \/ Recommend
    \/ Emit

Spec == Init /\ [][Next]_vars

SpecRank == InitRank /\ [][Next]_vars

(***************************************************************************)
(* Runs whose raw scores differ by less than the rounding step.             *)
(***************************************************************************)
MaxRoundAlts == 2

\* raw major-platform scores: 40, 40.001 and 40.06 (the current-platform
\* score is 40, so the overall scores are 40, 40.0006 and 40.036)
RoundValues == {Num(40), Frac(40001, 1000), Frac(2003, 50)}

RoundChoices ==
    [feasible : {TRUE},
     major : RoundValues,
     cost : {<<S_S, S_Low>>, <<S_L, S_Low>>},
     name : RankNames]

RoundAltLists ==
    UNION {[1..n -> RoundChoices] : n \in 1..MaxRoundAlts}

InitRound ==
    /\ variant \in Variants
    /\ \E ch \in RoundAltLists :
          /\ data = Doc([i \in DOMAIN ch |-> RankAltDoc(i, ch[i])], <<>>)
          /\ flags \in FlagSets(variant, Len(ch))
    /\ Loaded

SpecRound == InitRound /\ [][Next]_vars

\* the loop's locals major_average, current_score, overall and missing_values
\* for one alternative, before round() is applied to them
LoopLocals(v, alternative, cr, mp, cp, bl, scale) ==
    LET required == RequiredPlatforms(mp, cp)
        pp == [q \in Range(required) |->
                  IF v = "simple" THEN _platform_score_simple(alternative, q, cr)
                  ELSE IF v = "scaled"
                  THEN _platform_score_scaled(alternative, q, cr, scale)
                  ELSE _platform_score(alternative, q, cr, scale)] @@ <<>>
    IN  Aggregate(pp, required, mp, cp, bl)

(***************************************************************************)
(* Scoring runs: two criteria, both score scales, missing and out-of-range  *)
(* raw scores, and a current platform that is or is not a major platform.   *)
(***************************************************************************)
MaxScoreAlts == 1

\* the criteria fit and risk with the given raw weights
TwoCriteria(w) ==
    <<[id |-> "fit", name |-> "Fit", weight |-> Num(w[1]), metric |-> "m",
       data_source |-> "d", scoring_rule |-> "r"],
      [id |-> "risk", name |-> "Risk", weight |-> Num(w[2]), metric |-> "m",
       data_source |-> "d", scoring_rule |-> "r"]>>

ScoreWeights == {<<1, 1>>, <<3, 1>>}

\* major_platforms lists; the current platform is "codex"
ScoreMajorLists == {<<"claude">>, <<"claude", "codex">>, <<"codex">>}

ScoreScales == {"0-100", "1-5"}

\* raw criterion scores: null, in range, on the upper edge, and out of range
FitValues == {Null, Num(3), Num(100), Num(150)}

RiskValues == {Null, Num(-5), Num(3), Num(150)}

\* the score maps of an alternative over the platforms that are read
ScoreMaps(mp) ==
    [Range(RequiredPlatforms(mp, "codex")) -> [fit : FitValues, risk : RiskValues]]

\* the score map of every alternative after the first
PlainScores(mp) ==
    [q \in Range(RequiredPlatforms(mp, "codex")) |-> [fit |-> Num(3), risk |-> Num(3)]]

ScoreAltDoc(i, scores) ==
    [id |-> IdOf(i), type |-> "internal", effort |-> S_S, risk |-> S_Low,
     justification |-> "j", feasible |-> TRUE, scores |-> scores]

ScoreDoc(mp, w, scale, alts) ==
    [score_scale |-> scale, major_platforms |-> List(mp), criteria |-> TwoCriteria(w)]
        @@ Doc(alts, <<>>)

InitScore ==
    /\ variant \in Variants
    /\ \E mp \in ScoreMajorLists, w \in ScoreWeights, scale \in ScoreScales,
          n \in 1..MaxScoreAlts :
          \E first \in ScoreMaps(mp) :
             /\ data = ScoreDoc(mp, w, scale,
                                [i \in 1..n |->
                                    ScoreAltDoc(i, IF i = 1 THEN first
                                                   ELSE PlainScores(mp))])
             /\ flags \in FlagSets(variant, n)
    /\ Loaded

SpecScore == InitScore /\ [][Next]_vars

(***************************************************************************)
(* Runs over criterion weights and blend overrides, accepted and rejected.  *)
(***************************************************************************)
MaxWeight == 3

\* raw criterion weights: negative, zero and positive
WeightValues == -1..MaxWeight

\* the "weights" field of the document: absent (null), or overrides of one or
\* both blend components
BlendOverrides ==
    {Null,
     [major_platform_average |-> Num(0), current_platform |-> Num(0)],
     [major_platform_average |-> Num(-1)],
     [major_platform_average |-> Num(1), current_platform |-> Num(3)],
     [current_platform |-> Num(0)]}

WeightsDoc(w, over, major_score) ==
    [criteria |-> TwoCriteria(w), weights |-> over]
        @@ Doc(<<ScoreAltDoc(1, [claude |-> [fit |-> major_score, risk |-> Num(3)],
                                 codex |-> [fit |-> Num(3), risk |-> Num(3)]]),
                 ScoreAltDoc(2, PlainScores(<<"claude">>))>>, <<>>)

InitWeights ==
    /\ variant \in Variants
    /\ \E w \in WeightValues \X WeightValues, over \in BlendOverrides,
          major_score \in {Num(40), Num(100)} :
          data = WeightsDoc(w, over, major_score)
    /\ flags \in FlagSets(variant, 2)
    /\ Loaded

SpecWeights == InitWeights /\ [][Next]_vars

(***************************************************************************)
(* Guardrailed runs over the discovery object and the evidence of an        *)
(* external alternative.                                                    *)
(***************************************************************************)
MaxEvidence == 2

\* an evidence entry that passes every check
GoodEvidence ==
    [source_url |-> "u", source_date |-> "d", evidence_strength |-> S_high]

\* evidence entries: good, strength written "High", no url, a blank date, an
\* unknown strength, and a string in place of the object
EvidenceEntries ==
    {GoodEvidence,
     [source_url |-> "u", source_date |-> "d", evidence_strength |-> S_High],
     [source_date |-> "d", evidence_strength |-> S_high],
     [source_url |-> "u", source_date |-> " ", evidence_strength |-> S_low],
     [source_url |-> "u", source_date |-> "d", evidence_strength |-> S_S],
     Text}

\* the key "evidence" left out of the alternative
Absent == [t |-> "absent"]

EvidenceValues ==
    {Absent, Null, Text}
        \cup {List(s) : s \in UNION {[1..n -> EvidenceEntries] : n \in 0..MaxEvidence}}

GateAltDoc(i, type, evidence) ==
    LET base == [type |-> type] @@ AltDoc(i, TRUE, S_S, S_Low, Num(100), Num(40))
    IN  IF evidence = Absent THEN base ELSE [evidence |-> evidence] @@ base

\* the discovery field: null, or the two flags and the reason
DiscoveryValues ==
    {Null}
        \cup [external_discovery_done : BOOLEAN,
              external_discovery_blocked : BOOLEAN,
              block_reason : {"", "offline"}]

GateDoc(alts, discovery) == [discovery |-> discovery] @@ Doc(alts, <<>>)

InitGate ==
    /\ variant = "guardrailed"
    /\ \E t1 \in {"internal", "external"}, ev \in EvidenceValues,
          t2 \in {"internal", "external"}, dv \in DiscoveryValues :
          data = GateDoc(<<GateAltDoc(1, t1, ev),
                           GateAltDoc(2, t2, List(<<GoodEvidence>>))>>, dv)
    /\ flags \in FlagSets(variant, 2)
    /\ Loaded

SpecGate == InitGate /\ [][Next]_vars

(***************************************************************************)
(* Runs whose alternatives carry a blank or repeated id or a score that is  *)
(* not a finite number.                                                     *)
(***************************************************************************)
MaxFailAlts == 2

\* the id of an alternative: its own, blank, or that of the first one; its
\* major-platform score: a number, a string, or NaN
FailChoices ==
    [id : {"own", "blank", "first"},
     major : {Num(40), Num(100), Text, NaN}]

FailAltDoc(i, c) ==
    [id |-> IF c.id = "own" THEN IdOf(i) ELSE IF c.id = "blank" THEN <<32>> ELSE IdOf(1)]
        @@ AltDoc(i, TRUE, S_S, S_Low, c.major, Num(40))

InitFail ==
    /\ variant \in Variants
    /\ \E n \in 1..MaxFailAlts :
          \E ch \in [1..n -> FailChoices] :
             /\ data = Doc([i \in 1..n |-> FailAltDoc(i, ch[i])], <<>>)
             /\ flags \in FlagSets(variant, n)
    /\ Loaded

SpecFail == InitFail /\ [][Next]_vars

\* the exit status of the process: main() returns 0 after the outputs are
\* written; an exception raised by _evaluate leaves main() uncaught
ExitStatus ==
    IF pc = "done" THEN 0 ELSE IF pc = "failed" THEN 1 ELSE -1

(***************************************************************************)
(***************************************************************************)
(* Coverage runs of the guardrailed script: two criteria with weights 3:1   *)
(* or 1:0, platforms whose scores are absent, null or partly given, and a   *)
(* current platform that is or is not a major platform too.                 *)
(***************************************************************************)
MaxCoverAlts == 2

\* scores[platform] of an alternative: no entry, null, or an object giving
\* each criterion a score or null
CoverSlots == {Absent, Null} \cup [fit : {Null, Num(100)}, risk : {Null, Num(100)}]

InitCover ==
    /\ variant = "guardrailed"
    /\ \E w \in {<<3, 1>>, <<1, 0>>}, n \in 1..MaxCoverAlts,
          ro \in {<<>>, [min_coverage |-> Frac(7, 10)]},
          mp \in {<<"claude">>, <<"claude", "codex">>} :
          \E major, current \in CoverSlots,
             others \in [2..n -> {Absent, [fit |-> Null, risk |-> Num(100)],
                                  [fit |-> Num(100), risk |-> Num(100)]} \X BOOLEAN] :
             LET scores(m, c) ==
                     [q \in {p \in {"claude"} : m # Absent} \cup {p \in {"codex"} : c # Absent}
                         |-> IF q = "claude" THEN m ELSE c]
                 full == [fit |-> Num(100), risk |-> Num(100)]
                 alts == [i \in 1..n |->
                            IF i = 1 THEN ScoreAltDoc(1, scores(major, current))
                            ELSE [feasible |-> others[i][2]]
                                     @@ ScoreAltDoc(i, scores(full, others[i][1]))]
             IN  /\ data = [recommendation_rules |-> ro]
                               @@ ScoreDoc(mp, w, "0-100", alts)
                 /\ flags \in FlagSets(variant, n)
    /\ Loaded

SpecCover == InitCover /\ [][Next]_vars

\* the evaluation result _evaluate returns and main() writes
Result ==
    [run_id |-> run_id, evaluated_at |-> evaluated_at,
     decision_status |-> decision_status, score_scale |-> score_scale,
     current_platform |-> current_platform, major_platforms |-> major_platforms,
     criteria |-> criteria, weights |-> blend, ranked_alternatives |-> ranked,
     recommendation |-> recommendation]

\* the script is started again, later, on the same document with the same
\* flags; the result of the finished run is kept for comparison
Rerun ==
    /\ pc = "done"
    /\ earlier = <<>>
    /\ earlier' = <<Result>>
    /\ clock' = clock + 1
    /\ pc' = "start"
    /\ current_platform' = ""
    /\ major_platforms' = <<>>
    /\ score_scale' = ""
    /\ criteria' = <<>>
    /\ alternatives' = <<>>
    /\ blend' = <<>>
    /\ rules' = <<>>
    /\ results' = <<>>
    /\ seen_ids' = {}
    /\ ranked' = <<>>
    /\ recommendation' = <<>>
    /\ decision_status' = ""
    /\ error' = "none"
    /\ output' = "none"
    /\ run_id' = [text |-> "", at |-> 0]
    /\ evaluated_at' = 0
    /\ UNCHANGED <<variant, flags, data>>

MaxTwiceAlts == 2

\* documents with and without a run_id of their own, each run twice
InitTwice ==
    /\ variant \in Variants
    /\ \E n \in 1..MaxTwiceAlts :
          \E major \in [1..n -> {Num(40), Num(100)}] :
             LET doc == Doc([i \in 1..n |-> AltDoc(i, TRUE, S_S, S_Low, major[i], Num(40))],
                            <<>>)
             IN  /\ data \in {doc} \cup {[run_id |-> r] @@ doc : r \in {" ", "r1"}}
                 /\ flags \in FlagSets(variant, n)
    /\ Loaded

SpecTwice == InitTwice /\ [][Next \/ Rerun]_vars

(* What a finished run shows: the ranked list, the rules and the           *)
(* recommendation, read the way the specification words its branches.      *)
(***************************************************************************)
Decided == pc \in {"emit", "done"}

Guardrailed == variant = "guardrailed"

Action == recommendation.action

Chosen == recommendation.chosen_option_ids

\* the positions of `ranked` the decision may choose from
Eligible == {i \in DOMAIN ranked : ~Guardrailed \/ ranked[i].feasible}

HasBest == Eligible # {}

HasSecond == Cardinality(Eligible) > 1

BestIx == CHOOSE i \in Eligible : \A j \in Eligible : i <= j

SecondIx ==
    CHOOSE i \in Eligible \ {BestIx} : \A j \in Eligible \ {BestIx} : i <= j

Best == ranked[BestIx]

Second == ranked[SecondIx]

\* margin = best.overall - second.overall, or best.overall if no second exists
Margin ==
    IF HasSecond
    THEN RSub(Best.overall_success_score, Second.overall_success_score)
    ELSE Best.overall_success_score

CoverageMet(item) == RGe(item.coverage, rules["min_coverage"])

Gap == RSub(Best.major_platform_average, Best.current_platform_score)

SelectCond ==
    /\ HasBest
    /\ RGe(Best.overall_success_score, rules["select_min"])
    /\ RGe(Margin, rules["select_margin"])
    /\ Guardrailed => (HasSecond /\ CoverageMet(Best))

ComposeCond ==
    /\ HasSecond
    /\ RGe(Best.overall_success_score, rules["compose_min"])
    /\ RLt(Margin, rules["compose_margin"])
    /\ Guardrailed => (CoverageMet(Best) /\ CoverageMet(Second))

\* the ids of the alternatives whose feasible flag is set
FeasibleIds == {alternatives[i].id : i \in {j \in DOMAIN alternatives : alternatives[j].feasible}}

(***************************************************************************)
(* Feasibility gate of the guardrailed script.                             *)
(***************************************************************************)
\* C1: in the guardrailed variant every chosen id is the id of a feasible
\* alternative; an alternative with feasible = false is never chosen,
\* whatever the scores, coverage and thresholds are.
InfeasibleNeverChosen ==
    (Guardrailed /\ Decided) =>
        /\ \A k \in DOMAIN Chosen : Chosen[k] \in FeasibleIds
        /\ \A i \in DOMAIN alternatives :
              ~alternatives[i].feasible =>
                  \A k \in DOMAIN Chosen : Chosen[k] # alternatives[i].id

\* an infeasible alternative outscores the one that is chosen
InfeasibleOutscoresChosen ==
    /\ Guardrailed /\ Decided /\ HasBest
    /\ Chosen = <<Best.id>>
    /\ \E i \in DOMAIN ranked :
          /\ ~ranked[i].feasible
          /\ RLt(Best.overall_success_score, ranked[i].overall_success_score)

\* C2: in the guardrailed variant, when every alternative has
\* feasible = false the action is no-go and nothing is chosen.
AllInfeasibleIsNoGo ==
    (Guardrailed /\ Decided /\ FeasibleIds = {}) =>
        (Action = "no-go" /\ Chosen = <<>>)

\* every alternative is infeasible and one of them has a perfect score
AllInfeasibleWithTopScore ==
    /\ Guardrailed /\ Decided /\ FeasibleIds = {}
    /\ Len(ranked) = 2
    /\ ranked[1].overall_success_score = Rat(100, 1)
    /\ RGe(ranked[1].coverage, rules["min_coverage"])
    /\ Action = "no-go"

\* C3: in the guardrailed variant, with exactly one feasible alternative the
\* action is improve with that alternative chosen if its overall score is at
\* least improve_min, and no-go with nothing chosen otherwise; never select,
\* compose or extend.
SingleFeasibleImproveOrNoGo ==
    (Guardrailed /\ Decided /\ Cardinality(FeasibleIds) = 1) =>
        /\ IF RGe(Best.overall_success_score, rules["improve_min"])
           THEN Action = "improve" /\ Chosen = <<Best.id>>
           ELSE Action = "no-go" /\ Chosen = <<>>
        /\ Action \notin {"select", "compose", "extend"}

\* one feasible alternative that passes the select threshold, the coverage
\* gate and the extend gap, next to an infeasible one
SingleFeasiblePassesEveryThreshold ==
    /\ Guardrailed /\ Decided /\ Cardinality(FeasibleIds) = 1
    /\ Len(ranked) = 2
    /\ RGe(Best.overall_success_score, rules["select_min"])
    /\ CoverageMet(Best)
    /\ RGe(Gap, rules["extend_gap"])
    /\ Action = "improve"

\* C4: in the guardrailed variant, a best feasible alternative with overall
\* score >= select_min and margin >= select_margin but coverage below
\* min_coverage is not selected.
SelectBlockedByCoverage ==
    (/\ Guardrailed /\ Decided /\ HasBest
     /\ RGe(Best.overall_success_score, rules["select_min"])
     /\ RGe(Margin, rules["select_margin"])
     /\ ~CoverageMet(Best)) => Action # "select"

\* two feasible alternatives, the best one passes the select thresholds with
\* half of its scores missing
SelectThresholdsMetCoverageLow ==
    /\ Guardrailed /\ Decided /\ HasSecond
    /\ RGe(Best.overall_success_score, rules["select_min"])
    /\ RGe(Margin, rules["select_margin"])
    /\ ~CoverageMet(Best)
    /\ Action = "improve"

(***************************************************************************)
(* The branches of the decision, in the three scripts.                     *)
(***************************************************************************)
\* C5: in all three variants select is tried first: whenever best.overall >=
\* select_min and margin >= select_margin (guardrailed: and there are two
\* feasible alternatives and best.coverage >= min_coverage) the action is
\* select with chosen = [best], also when the compose conditions hold.
SelectWinsOverCompose ==
    (Decided /\ SelectCond) => (Action = "select" /\ Chosen = <<Best.id>>)

\* the select and the compose conditions hold together (simple script)
SelectAndComposeBothMatch ==
    /\ variant = "simple" /\ Decided
    /\ SelectCond /\ ComposeCond
    /\ Action = "select"

\* C6: when select does not match, the action is compose, with chosen =
\* [best, second] in rank order, exactly when a second alternative exists,
\* best.overall >= compose_min and margin < compose_margin and (guardrailed)
\* best and second both have coverage >= min_coverage; the guardrailed
\* variant never composes with a coverage below min_coverage.
ComposeExactlyWhenClose ==
    /\ (Decided /\ ~SelectCond) =>
          /\ (Action = "compose") <=> ComposeCond
          /\ (Action = "compose") => (Chosen = <<Best.id, Second.id>>)
    /\ (Decided /\ Guardrailed /\ Action = "compose") =>
          (HasSecond /\ CoverageMet(Best) /\ CoverageMet(Second))

\* the guardrailed script composes two close feasible alternatives
GuardrailedComposes ==
    /\ Guardrailed /\ Decided /\ ~SelectCond /\ ComposeCond
    /\ Action = "compose"
    /\ Chosen = <<Best.id, Second.id>>

\* C7 as stated: when neither select nor compose matches and best.overall >=
\* improve_min, the action is extend with chosen = [best] if the gap between
\* major average and current score is >= extend_gap (guardrailed: and
\* best.coverage >= min_coverage), and improve with chosen = [best] otherwise.
ExtendIffGap ==
    (Decided /\ HasBest /\ ~SelectCond /\ ~ComposeCond
        /\ RGe(Best.overall_success_score, rules["improve_min"])) =>
        IF RGe(Gap, rules["extend_gap"]) /\ (Guardrailed => CoverageMet(Best))
        THEN Action = "extend" /\ Chosen = <<Best.id>>
        ELSE Action = "improve" /\ Chosen = <<Best.id>>

\* C7 amended: as above, where the guardrailed variant extends only if there
\* are at least two feasible alternatives as well; with a single feasible
\* alternative it improves whatever the gap is.
ExtendIffGapAndSecondFeasible ==
    (Decided /\ HasBest /\ ~SelectCond /\ ~ComposeCond
        /\ RGe(Best.overall_success_score, rules["improve_min"])) =>
        IF /\ RGe(Gap, rules["extend_gap"])
           /\ Guardrailed => (CoverageMet(Best) /\ HasSecond)
        THEN Action = "extend" /\ Chosen = <<Best.id>>
        ELSE Action = "improve" /\ Chosen = <<Best.id>>

\* the guardrailed script extends the best of two feasible alternatives
GuardrailedExtends ==
    /\ Guardrailed /\ Decided /\ HasSecond
    /\ ~SelectCond /\ ~ComposeCond
    /\ RGe(Best.overall_success_score, rules["improve_min"])
    /\ RGe(Gap, rules["extend_gap"])
    /\ CoverageMet(Best)
    /\ Action = "extend"
    /\ Chosen = <<Best.id>>

\* the actions of a variant
Actions ==
    IF Guardrailed THEN {"select", "compose", "extend", "improve", "no-go"}
    ELSE {"select", "compose", "extend", "improve", "build-new"}

\* C8: when best.overall < improve_min and neither select nor compose
\* applies, the action is build-new (simple, scaled) or no-go (guardrailed)
\* with nothing chosen; the guardrailed variant never answers build-new, the
\* other two never no-go, and every action is one of the variant's actions.
FallbackWhenNotViable ==
    /\ (Decided /\ HasBest /\ ~SelectCond /\ ~ComposeCond
           /\ RLt(Best.overall_success_score, rules["improve_min"])) =>
          /\ Action = IF Guardrailed THEN "no-go" ELSE "build-new"
          /\ Chosen = <<>>
    /\ Decided => Action \in Actions

\* two feasible alternatives, the best below improve_min (guardrailed)
GuardrailedFallsBack ==
    /\ Guardrailed /\ Decided /\ HasSecond
    /\ ~SelectCond /\ ~ComposeCond
    /\ RLt(Best.overall_success_score, rules["improve_min"])
    /\ Action = "no-go"

\* C9: in every successful guardrailed run decision_status is proceed iff the
\* action is select, compose or extend, no-go iff the action is no-go, and
\* defer otherwise.
StatusFollowsAction ==
    (Guardrailed /\ Decided) =>
        /\ decision_status \in {"proceed", "defer", "no-go"}
        /\ (decision_status = "proceed") <=> (Action \in {"select", "compose", "extend"})
        /\ (decision_status = "no-go") <=> (Action = "no-go")
        /\ (decision_status = "defer") <=> (Action \notin {"select", "compose", "extend", "no-go"})

\* a finished guardrailed run that extends
GuardrailedExtendProceeds ==
    /\ Guardrailed /\ pc = "done" /\ output = "written"
    /\ Action = "extend"
    /\ decision_status = "proceed"

(***************************************************************************)
(* The order of ranked_alternatives.                                       *)
(***************************************************************************)
Ranked == pc \in {"recommend", "emit", "done"}

\* S < M < L and Low < Med < High, on the values as the input writes them
EffortOrd(e) == IF e = S_S THEN 0 ELSE IF e = S_M THEN 1 ELSE 2

RiskOrd(r) == IF r = S_Low THEN 0 ELSE IF r = S_Med THEN 1 ELSE 2

ScoresEqual(a, b) ==
    /\ a.overall_success_score = b.overall_success_score
    /\ a.current_platform_score = b.current_platform_score
    /\ a.major_platform_average = b.major_platform_average

\* a has the higher overall score, then current score, then major average
ScoresHigher(a, b) ==
    \/ RLt(b.overall_success_score, a.overall_success_score)
    \/ /\ a.overall_success_score = b.overall_success_score
       /\ \/ RLt(b.current_platform_score, a.current_platform_score)
          \/ /\ a.current_platform_score = b.current_platform_score
             /\ RLt(b.major_platform_average, a.major_platform_average)

NameBefore(a, b) == StrLt(Lower(a.name), Lower(b.name))

\* a has the lower effort, then the lower risk
CostLower(a, b) ==
    \/ EffortOrd(a.effort) < EffortOrd(b.effort)
    \/ EffortOrd(a.effort) = EffortOrd(b.effort) /\ RiskOrd(a.risk) < RiskOrd(b.risk)

CostEqual(a, b) ==
    EffortOrd(a.effort) = EffortOrd(b.effort) /\ RiskOrd(a.risk) = RiskOrd(b.risk)

SameFeasibility(a, b) == Guardrailed => (a.feasible = b.feasible)

\* a comes strictly before b in the key of the variant
KeyBefore(a, b) ==
    \/ Guardrailed /\ a.feasible /\ ~b.feasible
    \/ /\ SameFeasibility(a, b)
       /\ \/ ScoresHigher(a, b)
          \/ /\ ScoresEqual(a, b)
             /\ IF variant = "simple" THEN NameBefore(a, b)
                ELSE \/ CostLower(a, b)
                     \/ CostEqual(a, b) /\ NameBefore(a, b)

\* C10: ranked_alternatives is the scored alternatives in the order of the
\* key (guardrailed: feasible first; higher overall, current and major score;
\* scaled and guardrailed: lower effort, lower risk; lowercased name): no
\* item comes before one whose key is smaller, every infeasible item comes
\* after every feasible one, and with identical scores (and feasibility) the
\* item of lower effort, then lower risk, comes first.
RankedBySortKey ==
    Ranked =>
        /\ Len(ranked) = Len(results)
        /\ \A i \in DOMAIN results : \E j \in DOMAIN ranked : ranked[j] = results[i]
        /\ \A i \in DOMAIN ranked : ranked[i].rank = i
        /\ \A i, j \in DOMAIN ranked :
              i < j => ~KeyBefore(ranked[j], ranked[i])
        /\ Guardrailed =>
              \A i, j \in DOMAIN ranked :
                  (ranked[i].feasible /\ ~ranked[j].feasible) => i < j
        /\ variant # "simple" =>
              \A i, j \in DOMAIN ranked :
                  (/\ SameFeasibility(ranked[i], ranked[j])
                   /\ ScoresEqual(ranked[i], ranked[j])
                   /\ CostLower(ranked[i], ranked[j])) => i < j

\* the first input alternative is infeasible and scores higher, the second
\* is feasible and ranks first
InfeasibleSortsLast ==
    /\ Guardrailed /\ Ranked /\ Len(ranked) = 2
    /\ ~results[1].feasible /\ results[2].feasible
    /\ RLt(results[2].overall_success_score, results[1].overall_success_score)
    /\ ranked[1].id = results[2].id

\* the ids of the input alternatives, as the scripts read them
InputIds == [k \in DOMAIN data.alternatives.v |-> Strip(data.alternatives.v[k].id)]

\* C11: in every successful run the rank fields are 1..N in list order, each
\* input alternative id appears exactly once in the ranked output, and no
\* item comes before one that the comparator, applied to the output records,
\* puts first.
RanksArePermutation ==
    Ranked =>
        /\ Len(ranked) = Len(InputIds)
        /\ \A i \in DOMAIN ranked : ranked[i].rank = i
        /\ {ranked[i].rank : i \in DOMAIN ranked} = 1..Len(InputIds)
        /\ \A k \in DOMAIN InputIds :
              Cardinality({i \in DOMAIN ranked : ranked[i].id = InputIds[k]}) = 1
        /\ \A i, j \in DOMAIN ranked :
              ranked[i].rank < ranked[j].rank => ~KeyBefore(ranked[j], ranked[i])

\* two alternatives that tie on every key get the ranks 1 and 2
TiedAlternativesGetDistinctRanks ==
    /\ variant = "scaled" /\ Ranked /\ Len(ranked) = 2
    /\ ScoresEqual(ranked[1], ranked[2])
    /\ CostEqual(ranked[1], ranked[2])
    /\ ranked[1].name = ranked[2].name
    /\ ranked[1].rank = 1 /\ ranked[2].rank = 2

\* the list s in the opposite order
Reversed(s) == [i \in DOMAIN s |-> s[Len(s) + 1 - i]]

IdsOf(s) == [i \in DOMAIN s |-> s[i].id]

\* C12: the comparator is a total order on the alternatives of a run: any
\* two distinct ranked alternatives are strictly ordered by the key (the name
\* deciding when every other key is equal), and listing the alternatives in
\* the opposite order gives the same ranked order.
RankingIsTotalOrder ==
    Ranked =>
        /\ \A i, j \in DOMAIN ranked :
              i < j => KeyBefore(ranked[i], ranked[j])
        /\ IdsOf(Sorted(variant, Reversed(results))) = IdsOf(ranked)

\* the unrounded loop values of the k-th scored alternative
Full(k) ==
    LoopLocals(variant, LoopList[k], criteria, major_platforms, current_platform,
               blend, score_scale)

\* the position in results of a ranked item
ResultIx(item) == CHOOSE k \in DOMAIN results : results[k].id = item.id

\* a has the higher unrounded overall, then current, then major-average score
FullHigher(a, b) ==
    LET x == Full(ResultIx(a))
        y == Full(ResultIx(b))
    IN  \/ RLt(y.overall, x.overall)
        \/ /\ REq(x.overall, y.overall)
           /\ \/ RLt(y.current_score, x.current_score)
              \/ /\ REq(x.current_score, y.current_score)
                 /\ RLt(y.major_average, x.major_average)

\* C13: ranking compares the unrounded overall, current-platform and
\* major-average scores: of two alternatives of equal feasibility, the one
\* whose full-precision scores are higher is never ranked after the other.
RankedByUnroundedScores ==
    Ranked =>
        \A i, j \in DOMAIN ranked :
            (i < j /\ SameFeasibility(ranked[i], ranked[j]))
                => ~FullHigher(ranked[j], ranked[i])

\* C14 as stated: in every variant the reported margin is best.overall when
\* there is no second alternative, and best.overall - second.overall
\* otherwise.
MarginIsBestWhenNoSecond ==
    (Decided /\ HasBest) =>
        REq(recommendation.score_margin_vs_second, Round2(Margin))

\* C14: in the simple and scaled variants the margin is best.overall when
\* there is no second alternative (and select then asks best.overall >=
\* select_margin); in the guardrailed variant the reported margin is 0.0 when
\* there is no second feasible alternative; with a second (feasible)
\* alternative it is best.overall - second.overall in every variant.
MarginReported ==
    (Decided /\ HasBest) =>
        /\ HasSecond =>
              REq(recommendation.score_margin_vs_second,
                  Round2(RSub(Best.overall_success_score,
                              Second.overall_success_score)))
        /\ (~HasSecond /\ Guardrailed) =>
              REq(recommendation.score_margin_vs_second, Zero)
        /\ (~HasSecond /\ ~Guardrailed) =>
              /\ REq(recommendation.score_margin_vs_second,
                     Round2(Best.overall_success_score))
              /\ Action = "select" <=>
                     /\ RGe(Best.overall_success_score, rules["select_min"])
                     /\ RGe(Best.overall_success_score, rules["select_margin"])

\* a guardrailed run with one feasible alternative of positive score, next to
\* an infeasible one, reports the margin 0.0
SingleFeasibleReportsZeroMargin ==
    /\ Decided /\ Guardrailed /\ HasBest /\ ~HasSecond
    /\ Len(ranked) = 2
    /\ RLt(Zero, Best.overall_success_score)
    /\ REq(recommendation.score_margin_vs_second, Zero)

(***************************************************************************)
(* The scores of a run, stated from the input document.                    *)
(***************************************************************************)
\* the distinct platforms that are scored
Required == Range(major_platforms) \cup {current_platform}

\* the raw score the document gives alternative k on platform q for criterion
\* c: null when the platform has no entry or a null one
RawScore(k, q, c) ==
    LET given == data.alternatives.v[k].scores
    IN  IF q \notin DOMAIN given THEN Null
        ELSE IF given[q] = Null THEN Null
        ELSE given[q][criteria[c].id]

\* the criteria for which alternative k has a score on platform q
Have(k, q) == {c \in DOMAIN criteria : RawScore(k, q, c) # Null}

\* x limited to [0, 100]
Clamped(x) ==
    IF RLt(x, Zero) THEN Zero ELSE IF RLt(Rat(100, 1), x) THEN Rat(100, 1) ELSE x

\* the percent value of a raw score: times 20 on the 1-5 scale, then clamped
Percent(raw) ==
    Clamped(IF score_scale = "1-5" THEN RMul(_to_float(raw), Rat(20, 1))
            ELSE _to_float(raw))

\* the sum of f(c) over the criteria c in S
SumOver(S, f(_)) == RSum([c \in DOMAIN criteria |-> IF c \in S THEN f(c) ELSE Zero])

\* the normalized weight of the criteria alternative k has a score for on q
CoveredWeight(k, q) == SumOver(Have(k, q), LAMBDA c : criteria[c].weight)

\* the sum of weight * percent score over those criteria
WeightedSum(k, q) ==
    SumOver(Have(k, q), LAMBDA c : RMul(criteria[c].weight, Percent(RawScore(k, q, c))))

\* the number of missing values of alternative k
MissingCount(k) ==
    Cardinality({qc \in Required \X DOMAIN criteria : RawScore(k, qc[1], qc[2]) = Null})

\* C15: in the guardrailed variant a missing score is excluded, not zeroed:
\* a platform score is the sum of weight * score over the criteria that have
\* a score divided by the sum of their weights, the covered-weight fraction
\* (the coverage when one platform is scored) is that sum of weights, and
\* missing_values counts the criteria without a score.
MissingScoresExcluded ==
    (Guardrailed /\ Ranked) =>
        \A k \in DOMAIN results :
            /\ \A q \in Required :
                  RLt(Zero, CoveredWeight(k, q)) =>
                      REq(results[k].platform_scores[q],
                          Round2(RDiv(WeightedSum(k, q), CoveredWeight(k, q))))
            /\ results[k].missing_values = MissingCount(k)
            /\ \A q \in Required :
                  Required = {q} =>
                      REq(results[k].coverage, Round3(CoveredWeight(k, q)))

\* {fit: 100, risk: missing} with equal weights on a single platform gives
\* the current-platform score 100 and the coverage 0.5
FitOnlyScores100 ==
    /\ Guardrailed /\ Ranked
    /\ Required = {"codex"} /\ score_scale = "0-100"
    /\ REq(criteria[1].weight, criteria[2].weight)
    /\ RawScore(1, "codex", 1) = Num(100)
    /\ RawScore(1, "codex", 2) = Null
    /\ REq(results[1].current_platform_score, Rat(100, 1))
    /\ REq(results[1].coverage, Rat(1, 2))
    /\ results[1].missing_values = 1

\* the zero-filled score of alternative k on platform q: every criterion at
\* its full weight, a missing score counting as 0
ZeroFilled(k, q) ==
    SumOver(DOMAIN criteria,
            LAMBDA c : RMul(criteria[c].weight,
                            IF RawScore(k, q, c) = Null THEN Zero
                            ELSE Percent(RawScore(k, q, c))))

\* populated slots over expected slots
PopulatedShare(k) ==
    RSub(Rat(1, 1), Rat(MissingCount(k), Len(criteria) * Cardinality(Required)))

\* C16: in the simple and scaled variants a missing score contributes 0 at
\* its full normalized weight, and coverage = 1 - missing_values / (number of
\* criteria * number of distinct required platforms).
MissingScoresZeroFilled ==
    (~Guardrailed /\ Ranked) =>
        \A k \in DOMAIN results :
            /\ REq(results[k].current_platform_score,
                   Round2(ZeroFilled(k, current_platform)))
            /\ variant = "scaled" =>
                  \A q \in Required :
                      REq(results[k].platform_scores[q], Round2(ZeroFilled(k, q)))
            /\ results[k].missing_values = MissingCount(k)
            /\ REq(results[k].coverage, Round3(PopulatedShare(k)))

\* {fit: 100, risk: missing} with equal weights on a single platform is
\* scored 50 by the zero-fill variants, with coverage 0.5
FitOnlyScores50 ==
    /\ ~Guardrailed /\ Ranked
    /\ Required = {"codex"} /\ score_scale # "1-5"
    /\ REq(criteria[1].weight, criteria[2].weight)
    /\ RawScore(1, "codex", 1) = Num(100)
    /\ RawScore(1, "codex", 2) = Null
    /\ REq(results[1].current_platform_score, Rat(50, 1))
    /\ REq(results[1].coverage, Rat(1, 2))

\* the mean over the scored platforms of the covered weight of alternative k
MeanCoveredWeight(k) ==
    LET total[Q \in SUBSET Required] ==
            IF Q = {} THEN Zero
            ELSE LET q == CHOOSE p \in Q : TRUE
                 IN  RAdd(CoveredWeight(k, q), total[Q \ {q}])
    IN  RDiv(total[Required], Rat(Cardinality(Required), 1))

InUnitInterval(x) == RLe(Zero, x) /\ RLe(x, Rat(1, 1))

\* C17: the coverage of every alternative of a successful run lies in
\* [0, 1]; in the guardrailed variant count_coverage lies in [0, 1] too and
\* coverage is the mean over the distinct required platforms of the
\* per-platform covered-weight fractions.
CoverageInUnitInterval ==
    Ranked =>
        \A k \in DOMAIN results :
            /\ InUnitInterval(results[k].coverage)
            /\ Guardrailed =>
                  /\ InUnitInterval(results[k].count_coverage)
                  /\ REq(results[k].coverage, Round3(MeanCoveredWeight(k)))

\* weights 3:1, two platforms, risk missing on one of them: coverage 0.875,
\* count_coverage 0.75
WeightAndCountCoverageDiffer ==
    /\ Guardrailed /\ Ranked
    /\ Cardinality(Required) = 2
    /\ \E q \in Required : REq(CoveredWeight(1, q), Rat(3, 4))
    /\ \E q \in Required : REq(CoveredWeight(1, q), Rat(1, 1))
    /\ REq(results[1].coverage, Rat(7, 8))
    /\ REq(results[1].count_coverage, Rat(3, 4))

InPercentRange(x) == RLe(Zero, x) /\ RLe(x, Rat(100, 1))

\* C18: every criterion score that enters a weighted sum is the raw value,
\* times 20 when the score scale is 1-5, clamped to [0, 100] (a platform
\* score built from a single criterion score is that value); so every
\* platform score, major_platform_average, current_platform_score and
\* overall_success_score lies in [0, 100].
ScoresInPercentRange ==
    Ranked =>
        \A k \in DOMAIN results :
            /\ InPercentRange(results[k].major_platform_average)
            /\ InPercentRange(results[k].current_platform_score)
            /\ InPercentRange(results[k].overall_success_score)
            /\ variant # "simple" =>
                  \A q \in Required : InPercentRange(results[k].platform_scores[q])
            /\ \A q \in Required : \A c \in Have(k, q) :
                  /\ (Guardrailed /\ Have(k, q) = {c}) =>
                        REq(results[k].platform_scores[q],
                            Round2(Percent(RawScore(k, q, c))))
                  /\ (~Guardrailed /\ q = current_platform /\ Have(k, q) = {c}) =>
                        REq(results[k].current_platform_score,
                            Round2(RMul(criteria[c].weight,
                                        Percent(RawScore(k, q, c)))))

\* on the 1-5 scale the raw scores 3 and -5 enter as 60 and 0, and 150 as 100
ScaleConvertedAndClamped ==
    /\ Guardrailed /\ Ranked /\ score_scale = "1-5"
    /\ Required = {"codex"}
    /\ REq(criteria[1].weight, criteria[2].weight)
    /\ \/ /\ RawScore(1, "codex", 1) = Num(3)
          /\ RawScore(1, "codex", 2) = Num(-5)
          /\ REq(results[1].current_platform_score, Rat(30, 1))
       \/ /\ RawScore(1, "codex", 1) = Num(3)
          /\ RawScore(1, "codex", 2) = Num(150)
          /\ REq(results[1].current_platform_score, Rat(80, 1))

\* the unrounded score of alternative k on platform q under the missing-value
\* policy of the variant
PlatformScoreOf(k, q) ==
    IF ~Guardrailed THEN ZeroFilled(k, q)
    ELSE IF RLt(Zero, CoveredWeight(k, q))
    THEN RDiv(WeightedSum(k, q), CoveredWeight(k, q))
    ELSE Zero

\* the unweighted mean of the platform scores over the major_platforms list
MajorMean(k) ==
    RDiv(RSum([i \in DOMAIN major_platforms |-> PlatformScoreOf(k, major_platforms[i])]),
         Rat(Len(major_platforms), 1))

\* C19: overall = blend.major_platform_average * (unweighted mean of the
\* platform scores over the major_platforms list) + blend.current_platform *
\* (platform score of the current platform), the current platform entering
\* both terms when it is a major platform too.
OverallIsBlend ==
    Ranked =>
        \A k \in DOMAIN results :
            /\ REq(results[k].major_platform_average, Round2(MajorMean(k)))
            /\ REq(results[k].current_platform_score,
                   Round2(PlatformScoreOf(k, current_platform)))
            /\ REq(results[k].overall_success_score,
                   Round2(RAdd(RMul(blend["major_platform_average"], MajorMean(k)),
                               RMul(blend["current_platform"],
                                    PlatformScoreOf(k, current_platform)))))

\* major platforms claude and codex, current platform codex, platform scores
\* 3 and 100: major average 51.5, overall 0.6 * 51.5 + 0.4 * 100 = 70.9
CurrentPlatformEntersBothTerms ==
    /\ Ranked
    /\ major_platforms = <<"claude", "codex">> /\ current_platform = "codex"
    /\ REq(PlatformScoreOf(1, "claude"), Rat(3, 1))
    /\ REq(PlatformScoreOf(1, "codex"), Rat(100, 1))
    /\ REq(results[1].major_platform_average, Rat(515, 10))
    /\ REq(results[1].overall_success_score, Rat(709, 10))

(***************************************************************************)
(* The normalizers, stated from the input document.                        *)
(***************************************************************************)
Normalized == pc # "start"

Accepted == Normalized /\ error = "none"

\* the raw weight of the i-th criterion of the document
RawWeight(i) == _to_float(data.criteria[i].weight)

RawTotal == RSum([i \in DOMAIN data.criteria |-> RawWeight(i)])

\* a blend component of the document, or its default
RawBlend(key) ==
    IF IsObject(data.weights) /\ key \in DOMAIN data.weights
    THEN _to_float(data.weights[key])
    ELSE IF key = "major_platform_average" THEN Rat(6, 10) ELSE Rat(4, 10)

RawBlendTotal == RAdd(RawBlend("major_platform_average"), RawBlend("current_platform"))

WeightsInvalid ==
    \/ \E i \in DOMAIN data.criteria : RLt(RawWeight(i), Zero)
    \/ RLe(RawTotal, Zero)

BlendInvalid ==
    \/ RLt(RawBlend("major_platform_average"), Zero)
    \/ RLt(RawBlend("current_platform"), Zero)
    \/ RLe(RawBlendTotal, Zero)

\* C20: every accepted criteria list comes out in input order with each
\* weight equal to the input weight divided by the total, the weights summing
\* to 1; every accepted blend (overrides merged over 0.6 and 0.4) comes out
\* with each component divided by their sum, the two summing to 1; a negative
\* weight, a total weight <= 0, a negative blend component and a blend sum
\* <= 0 are rejected.
NormalizedSumsToOne ==
    Normalized =>
        /\ Accepted =>
              /\ Len(criteria) = Len(data.criteria)
              /\ \A i \in DOMAIN criteria :
                    /\ criteria[i].id = data.criteria[i].id
                    /\ REq(criteria[i].weight, RDiv(RawWeight(i), RawTotal))
              /\ REq(RSum([i \in DOMAIN criteria |-> criteria[i].weight]), Rat(1, 1))
              /\ \A key \in {"major_platform_average", "current_platform"} :
                    REq(blend[key], RDiv(RawBlend(key), RawBlendTotal))
              /\ REq(RAdd(blend["major_platform_average"], blend["current_platform"]),
                     Rat(1, 1))
        /\ (WeightsInvalid \/ BlendInvalid) => ~Accepted
        /\ WeightsInvalid =>
              error \in {"criteria[i].weight must be non-negative",
                         "Sum of criterion weights must be greater than zero"}
        /\ (BlendInvalid /\ ~WeightsInvalid) =>
              error \in {"Blend weights must be non-negative",
                         "Blend weights must sum to a positive value"}

\* weights 3 and 1 come out as 0.75 and 0.25, the blend override {1, 3} as
\* 0.25 and 0.75
UnequalWeightsNormalized ==
    /\ Accepted
    /\ REq(RawWeight(1), Rat(3, 1)) /\ REq(RawWeight(2), Rat(1, 1))
    /\ REq(criteria[1].weight, Rat(3, 4)) /\ REq(criteria[2].weight, Rat(1, 4))
    /\ REq(RawBlend("current_platform"), Rat(3, 1))
    /\ REq(blend["major_platform_average"], Rat(1, 4))
    /\ REq(blend["current_platform"], Rat(3, 4))

(***************************************************************************)
(* The validation gates of the guardrailed script.                         *)
(***************************************************************************)
InputAlternatives == data.alternatives.v

\* C21: the guardrailed variant rejects an input with fewer than two
\* alternatives unless allow_single_option is set; with it a single
\* alternative is scored, and the action is never select.
SingleOptionNeedsOverride ==
    (Guardrailed /\ Normalized /\ Len(InputAlternatives) < 2) =>
        /\ ~flags.allow_single_option =>
              /\ pc = "failed"
              /\ error = "At least two alternatives are required for scoring"
              /\ results = <<>> /\ ranked = <<>>
        /\ flags.allow_single_option => pc # "failed"
        /\ Decided =>
              /\ Len(ranked) = 1
              /\ ranked[1].id = Strip(InputAlternatives[1].id)
              /\ Action # "select"

\* a single alternative, scored under the override, passes the select
\* thresholds with select_margin 0 and is answered with improve
SingleOptionScoredNotSelected ==
    /\ Guardrailed /\ Decided /\ flags.allow_single_option
    /\ Len(InputAlternatives) = 1 /\ Len(ranked) = 1
    /\ ranked[1].feasible
    /\ RGe(ranked[1].overall_success_score, rules["select_min"])
    /\ RGe(Zero, rules["select_margin"])
    /\ CoverageMet(ranked[1])
    /\ Action = "improve"

HasDiscovery == IsObject(data.discovery)

DiscoveryDone == HasDiscovery /\ data.discovery.external_discovery_done

DiscoveryBlocked == HasDiscovery /\ data.discovery.external_discovery_blocked

BlockReasonGiven == HasDiscovery /\ data.discovery.block_reason \notin {"", " "}

\* the input alternatives of type external
ExternalInputs == {i \in DOMAIN InputAlternatives : InputAlternatives[i].type = "external"}

\* C22: the guardrailed variant accepts a discovery object only when exactly
\* one of the two holds: external_discovery_done is true, or
\* external_discovery_blocked is true with a non-empty block_reason; an input
\* with neither, with both, or blocked without a reason fails validation.
DiscoveryExactlyOne ==
    (Guardrailed /\ Normalized) =>
        /\ Accepted => (DiscoveryDone # (DiscoveryBlocked /\ BlockReasonGiven))
        /\ (~DiscoveryDone /\ ~DiscoveryBlocked) => ~Accepted
        /\ (DiscoveryDone /\ DiscoveryBlocked) => ~Accepted
        /\ (DiscoveryBlocked /\ ~BlockReasonGiven) => ~Accepted

\* C23: in the guardrailed variant an input with external_discovery_done =
\* true and no alternative of type external fails validation and produces no
\* result.
DoneRequiresExternal ==
    (Guardrailed /\ Normalized /\ DiscoveryDone /\ ExternalInputs = {}) =>
        /\ pc = "failed"
        /\ error # "none"
        /\ results = <<>> /\ ranked = <<>> /\ recommendation = <<>>
        /\ output # "written"
        /\ (~DiscoveryBlocked /\ Get(InputAlternatives[1], "evidence", Null) # Text) =>
              error = "external discovery was marked complete but no alternative with type 'external' was provided"

\* discovery done, not blocked, only internal alternatives: the run has
\* failed at the discovery gate
DoneWithoutExternalFails ==
    /\ Guardrailed /\ pc = "failed"
    /\ DiscoveryDone /\ ~DiscoveryBlocked /\ ExternalInputs = {}
    /\ error = "external discovery was marked complete but no alternative with type 'external' was provided"

\* the evidence of input alternative i is a non-empty list of objects with a
\* source_url, a source_date and a strength of low, medium or high (read
\* after trimming and lowercasing, as the script reads it)
EvidenceValid(i) ==
    /\ "evidence" \in DOMAIN InputAlternatives[i]
    /\ InputAlternatives[i].evidence \notin {Null, Text}
    /\ InputAlternatives[i].evidence.v # <<>>
    /\ \A j \in DOMAIN InputAlternatives[i].evidence.v :
          LET item == InputAlternatives[i].evidence.v[j]
          IN  /\ item # Text
              /\ "source_url" \in DOMAIN item /\ item.source_url \notin {"", " "}
              /\ "source_date" \in DOMAIN item /\ item.source_date \notin {"", " "}
              /\ "evidence_strength" \in DOMAIN item
              /\ Lower(Strip(item.evidence_strength)) \in {S_low, S_medium, S_high}

\* C24: in the guardrailed variant every alternative of type external in an
\* accepted input has a non-empty evidence list whose every entry has a
\* non-empty source_url, a non-empty source_date and an evidence_strength in
\* {low, medium, high}; an external alternative violating any of these makes
\* validation fail.
ExternalNeedsEvidence ==
    (Guardrailed /\ Normalized) =>
        /\ Accepted => \A i \in ExternalInputs : EvidenceValid(i)
        /\ (\E i \in ExternalInputs : ~EvidenceValid(i)) =>
              /\ pc = "failed"
              /\ error # "none"
              /\ results = <<>>

\* an external alternative with two valid evidence entries is accepted
ExternalWithEvidenceAccepted ==
    /\ Guardrailed /\ Accepted /\ pc = "score"
    /\ 1 \in ExternalInputs
    /\ Len(InputAlternatives[1].evidence.v) = 2
    /\ EvidenceValid(1)

(***************************************************************************)
(* Failing runs.                                                           *)
(***************************************************************************)
\* every id of the input alternatives is non-blank and new, and every score
\* the document supplies is a finite number
InputChecksPass ==
    \A i \in DOMAIN InputAlternatives :
        /\ Strip(InputAlternatives[i].id) # <<>>
        /\ \A j \in 1..(i - 1) :
              Strip(InputAlternatives[j].id) # Strip(InputAlternatives[i].id)
        /\ \A q \in DOMAIN InputAlternatives[i].scores :
              \A c \in DOMAIN InputAlternatives[i].scores[q] :
                  InputAlternatives[i].scores[q][c] = Null
                      \/ IsFloat(InputAlternatives[i].scores[q][c])

\* C25: a run fails validation before any scoring occurs: no alternative is
\* scored unless every check of the input passes, so a failed run has scored
\* nothing.
ValidationBeforeScoring ==
    /\ results # <<>> => InputChecksPass
    /\ pc = "failed" => results = <<>>

\* C26: on any validation failure, wherever it is detected, the run emits
\* nothing: no ranking, no recommendation, no report or JSON output, and the
\* process exits non-zero.
FailureEmitsNothing ==
    error # "none" =>
        /\ pc = "failed"
        /\ ranked = <<>>
        /\ recommendation = <<>>
        /\ output = "none"
        /\ ExitStatus = 1

\* the run failed on the score of a later alternative, after the first one
\* was scored, and has written nothing
LateFailureEmitsNothing ==
    /\ pc = "failed" /\ error \in {"Expected numeric value", "Invalid numeric value"}
    /\ Len(results) = 1 /\ Len(InputAlternatives) = 2
    /\ ranked = <<>> /\ output = "none"

RunIdGiven == "run_id" \in DOMAIN data /\ StripText(data.run_id) # ""

ClockFields == IF RunIdGiven THEN {"evaluated_at"} ELSE {"evaluated_at", "run_id"}

Feasible == SelectSeq(ranked, LAMBDA item : item.feasible)

\* the coverage of the best feasible alternative as the result reports it:
\* the mean over the required platforms of the covered weight, to 3 decimals
BestWeightCoverage == Round3(MeanCoveredWeight(ResultIx(Feasible[1])))

\* C28: in the guardrailed variant, whenever the best feasible alternative's
\* weight-fraction coverage is below min_coverage, the action is improve or
\* no-go and decision_status is not proceed, however many feasible
\* alternatives there are.
LowCoverageNeverProceeds ==
    (Guardrailed /\ Decided /\ Feasible # <<>>
        /\ RLt(BestWeightCoverage, rules["min_coverage"])) =>
        /\ Action \in {"improve", "no-go"}
        /\ decision_status # "proceed"

\* two feasible alternatives, the best scoring 100 with a margin of 40 and
\* three of its four value slots populated (0.75) but a covered weight of
\* 0.625 only, under min_coverage 0.7: held back to improve
HeldBackByWeightCoverage ==
    /\ Guardrailed
    /\ Decided
    /\ Len(Feasible) = 2
    /\ REq(Feasible[1].overall_success_score, Rat(100, 1))
    /\ REq(Feasible[2].overall_success_score, Rat(60, 1))
    /\ REq(rules["min_coverage"], Rat(7, 10))
    /\ REq(Feasible[1].count_coverage, Rat(3, 4))
    /\ REq(BestWeightCoverage, Rat(5, 8))
    /\ Action = "improve"
    /\ decision_status = "defer"

\* alternative k has a score for every criterion on platform q
Complete(k, q) == Have(k, q) = DOMAIN criteria

GuardrailedScore(k, q, scale) == _platform_score(alternatives[k], q, criteria, scale).val

ScaledScore(k, q, scale) == _platform_score_scaled(alternatives[k], q, criteria, scale).val

SimpleScore(k, q) == _platform_score_simple(alternatives[k], q, criteria).val

Unusable(k, q) == \A c \in Have(k, q) : REq(criteria[c].weight, Zero)

\* the platform score of alternative k on q, an unusable platform counting 0
ScoreWithZero(k, q) == IF Unusable(k, q) THEN Zero ELSE PlatformScoreOf(k, q)

\* the mean over the whole major_platforms list of ScoreWithZero
MajorMeanWithZero(k) ==
    RDiv(RSum([i \in DOMAIN major_platforms |-> ScoreWithZero(k, major_platforms[i])]),
         Rat(Len(major_platforms), 1))

\* C30: in the guardrailed variant a required platform for which an
\* alternative has no usable criterion score gets platform score 0 and covered
\* weight 0, and that 0 enters the major-platform average (still a mean over
\* all major platforms) and the current-platform term at full weight.
UnusablePlatformCountsZero ==
    (Guardrailed /\ Ranked) =>
        \A k \in DOMAIN results :
            (\E q \in Required : Unusable(k, q)) =>
                /\ \A q \in Required :
                      Unusable(k, q) =>
                          /\ REq(results[k].platform_scores[q], Zero)
                          /\ REq(GuardrailedScore(k, q, score_scale).score, Zero)
                          /\ REq(GuardrailedScore(k, q, score_scale).coverage, Zero)
                /\ REq(results[k].major_platform_average, Round2(MajorMeanWithZero(k)))
                /\ REq(results[k].current_platform_score,
                       Round2(ScoreWithZero(k, current_platform)))
                /\ REq(results[k].overall_success_score,
                       Round2(RAdd(RMul(blend["major_platform_average"],
                                        MajorMeanWithZero(k)),
                                   RMul(blend["current_platform"],
                                        ScoreWithZero(k, current_platform)))))

\* criteria weighted 1:0, major platforms claude and codex: on claude only the
\* zero-weight criterion is scored (100), codex is fully scored; claude counts
\* 0, the major average is 50 and overall 0.6 * 50 + 0.4 * 100 = 70
ZeroWeightOnlyHalvesMajorAverage ==
    /\ Guardrailed
    /\ Ranked
    /\ Len(major_platforms) = 2
    /\ REq(criteria[2].weight, Zero)
    /\ RawScore(1, "claude", 1) = Null
    /\ RawScore(1, "claude", 2) = Num(100)
    /\ REq(results[1].platform_scores["claude"], Zero)
    /\ REq(results[1].platform_scores["codex"], Rat(100, 1))
    /\ REq(results[1].major_platform_average, Rat(50, 1))
    /\ REq(results[1].overall_success_score, Rat(70, 1))

====
